---- MODULE Spec2Model ----
(***************************************************************************)
(* better-env: provider adapters and the environment synchronization       *)
(* runtime (pull / add / upsert / update / delete / load).                  *)
(*                                                                         *)
(* Strings the code inspects character by character (variable names and    *)
(* the lines of a provider listing) are sequences of one-character         *)
(* strings, so the parsers below do what the TypeScript does.  Strings the *)
(* code only compares or passes on (environment names, values, file        *)
(* names) are TLA+ strings.                                                *)
(***************************************************************************)
EXTENDS Naturals, Integers, Sequences, FiniteSets, TLC

\* ------------------------------------------------------------------ bounds

\* How many times in a row the command of a behaviour is run: any command
\* runs first, from any seeded remote store, and may then be run again
\* with the same arguments.
MaxRuns == 2

\* Lines of the dotenv file given to `load`.
MaxFileLen == 2

\* ------------------------------------------------------- JavaScript values

Undefined == "<undefined>"
Null == "<null>"

\* A variable the store does not hold; values are character sequences.
Absent == << "<absent>" >>

\* ------------------------------------------------------------ characters

UpperSeq == << "A","B","C","D","E","F","G","H","I","J","K","L","M",
               "N","O","P","Q","R","S","T","U","V","W","X","Y","Z" >>
LowerSeq == << "a","b","c","d","e","f","g","h","i","j","k","l","m",
               "n","o","p","q","r","s","t","u","v","w","x","y","z" >>
DigitSeq == << "0","1","2","3","4","5","6","7","8","9" >>

Range(s) == { s[i] : i \in DOMAIN s }

Letters == Range(UpperSeq) \cup Range(LowerSeq)
Digits == Range(DigitSeq)
Whitespace == { " ", "\t", "\n", "\r" }

\* String.prototype.toLowerCase, one character.
toLowerChar(c) ==
  IF c \in Range(UpperSeq)
  THEN LowerSeq[CHOOSE i \in DOMAIN UpperSeq : UpperSeq[i] = c]
  ELSE c

\* String.prototype.toLowerCase
toLowerCase(s) == [i \in DOMAIN s |-> toLowerChar(s[i])]

\* String.prototype.startsWith
startsWith(s, p) == Len(s) >= Len(p) /\ SubSeq(s, 1, Len(p)) = p

\* String.prototype.trim
RECURSIVE trimStart(_)
trimStart(s) ==
  IF s # << >> /\ s[1] \in Whitespace THEN trimStart(Tail(s)) ELSE s

RECURSIVE trimEnd(_)
trimEnd(s) ==
  IF s # << >> /\ s[Len(s)] \in Whitespace
  THEN trimEnd(SubSeq(s, 1, Len(s) - 1))
  ELSE s

trim(s) == trimEnd(trimStart(s))

\* String.prototype.indexOf for a one-character needle; 0 stands for -1.
indexOf(s, c) ==
  IF \E i \in DOMAIN s : s[i] = c
  THEN CHOOSE i \in DOMAIN s : s[i] = c /\ \A j \in 1..(i - 1) : s[j] # c
  ELSE 0

\* s.split(/\s+/)[0] of a trimmed, non-empty line: the text before the
\* first whitespace character.
firstToken(s) ==
  IF \E i \in DOMAIN s : s[i] \in Whitespace
  THEN SubSeq(s, 1,
         (CHOOSE i \in DOMAIN s :
            s[i] \in Whitespace /\ \A j \in 1..(i - 1) : s[j] \notin Whitespace) - 1)
  ELSE s

\* /^[A-Za-z_][A-Za-z0-9_]*$/.test(value), false for undefined and "".
isEnvVarName(value) ==
  /\ value # << >>
  /\ value[1] \in Letters \cup {"_"}
  /\ \A i \in DOMAIN value : value[i] \in Letters \cup Digits \cup {"_"}

\* Array.from(new Set(keys)): first occurrences, in order.
RECURSIVE uniq(_)
uniq(keys) ==
  IF keys = << >> THEN << >>
  ELSE LET init == uniq(SubSeq(keys, 1, Len(keys) - 1))
           last == keys[Len(keys)]
       IN IF last \in Range(init) THEN init ELSE Append(init, last)

\* ------------------------------------------------------ keys and values

K_A == << "A" >>
K_KEY == << "K", "E", "Y" >>
K_CONVEX_A == << "C", "O", "N", "V", "E", "X", "_", "A" >>
K_0 == << "0" >>

\* The variable names commands and stores range over, in the order a
\* provider lists them.
KeyOrder == << K_A, K_KEY, K_CONVEX_A, K_0 >>
Keys == Range(KeyOrder)

\* Values are character sequences.
V_1 == << "1" >>
V_2 == << "2" >>
Values == { V_1, V_2 }

\* Where an operation takes no value.
NoValue == << >>

EmptyStore == [k \in Keys |-> Absent]

PresentKeys(st) == SelectSeq(KeyOrder, LAMBDA k : st[k] # Absent)

\* Concatenation of a sequence of sequences.
RECURSIVE flatten(_)
flatten(ss) == IF ss = << >> THEN << >> ELSE Head(ss) \o flatten(Tail(ss))

\* The number a sequence of digits writes.
RECURSIVE toNumber(_)
toNumber(s) ==
  IF s = << >> THEN 0
  ELSE 10 * toNumber(SubSeq(s, 1, Len(s) - 1))
       + (CHOOSE d \in 0..9 : DigitSeq[d + 1] = s[Len(s)])

\* A property key that is an array index: a canonical numeric string
\* ("0", or digits without a leading zero; below 2^32 - 1, which every
\* key of the model is).
isArrayIndex(key) ==
  /\ key # << >>
  /\ \A i \in DOMAIN key : key[i] \in Digits
  /\ key[1] = "0" => Len(key) = 1

S___proto__ == << "_", "_", "p", "r", "o", "t", "o", "_", "_" >>

\* A JavaScript object made by `{}`, as the sequence of its own [key,
\* value] entries in the order Object.keys / Object.entries give them:
\* array-index keys in ascending numeric order, then the other keys in
\* insertion order.  obj[key] = value, for a string value: an assignment
\* to __proto__ reaches the setter of Object.prototype, which ignores a
\* value that is no object.
objSet(obj, key, value) ==
  IF key = S___proto__ THEN obj
  ELSE IF \E i \in DOMAIN obj : obj[i].key = key
  THEN [i \in DOMAIN obj |->
          IF obj[i].key = key THEN [key |-> key, value |-> value] ELSE obj[i]]
  ELSE IF isArrayIndex(key)
  THEN SelectSeq(obj, LAMBDA e : isArrayIndex(e.key) /\ toNumber(e.key) < toNumber(key))
       \o << [key |-> key, value |-> value] >>
       \o SelectSeq(obj, LAMBDA e : ~(isArrayIndex(e.key) /\ toNumber(e.key) < toNumber(key)))
  ELSE Append(obj, [key |-> key, value |-> value])

\* Object.keys(obj)
objKeys(obj) == [i \in DOMAIN obj |-> obj[i].key]

\* Object.hasOwn(obj, key)
objHasOwn(obj, key) == \E i \in DOMAIN obj : obj[i].key = key

\* ------------------------------------------- provider command-line tools
\* What each provider executable prints for a listing of the store `st`.
\* The executables are external; the shapes are the ones the adapters'
\* parsers and the repository's fake executables are written for.

\* `vercel env ls <environment>`: a banner, a table header, one row a variable.
VercelEnvLsStdout(st) ==
  << << "V","e","r","c","e","l"," ","C","L","I" >>,
     << >>,
     << " "," ","n","a","m","e"," "," ","v","a","l","u","e" >> >>
  \o [i \in DOMAIN PresentKeys(st) |->
        << " ", " " >> \o PresentKeys(st)[i] \o << " ", " ", "E", "n", "c" >>]

\* KEY=value lines: `convex env list`, `netlify env:list --plain`,
\* `railway variable list`.
KeyValueLines(st) ==
  [i \in DOMAIN PresentKeys(st) |->
     PresentKeys(st)[i] \o << "=" >> \o st[PresentKeys(st)[i]]]

\* `fly secrets list --json`, `wrangler secret list --format json`: a JSON
\* array of records whose `name` is the variable name (values are never
\* shown).
JsonNameArray(st) ==
  [kind |-> "array",
   items |-> [i \in DOMAIN PresentKeys(st) |-> [name |-> PresentKeys(st)[i]]]]

\* `railway variable list --json`: a JSON object mapping name to value.
RailwayJsonStdout(st) ==
  [kind |-> "object",
   items |-> [i \in DOMAIN PresentKeys(st) |->
                [key |-> PresentKeys(st)[i],
                 value |-> st[PresentKeys(st)[i]]]]]

\* ------------------------------------------------------ listing parsers

S_vercel == << "v","e","r","c","e","l" >>
S_environment_variables ==
  << "e","n","v","i","r","o","n","m","e","n","t"," ",
     "v","a","r","i","a","b","l","e","s" >>
S_environment_variable ==
  << "e","n","v","i","r","o","n","m","e","n","t"," ",
     "v","a","r","i","a","b","l","e" >>
S_name_ == << "n","a","m","e"," " >>
S_key_ == << "k","e","y"," " >>
S_convex == << "c","o","n","v","e","x" >>

\* One iteration of parseVercelEnvLs's loop: the keys the line adds.
VercelLineKeys(raw) ==
  LET trimmed == trim(raw)
      lower == toLowerCase(trimmed)
      first == firstToken(trimmed)
  IN IF Len(trimmed) = 0 THEN << >>
     ELSE IF startsWith(lower, S_vercel) THEN << >>
     ELSE IF startsWith(lower, S_environment_variables) THEN << >>
     ELSE IF startsWith(lower, S_name_) THEN << >>
     ELSE IF startsWith(lower, S_key_) THEN << >>
     ELSE IF isEnvVarName(first) THEN << first >>
     ELSE << >>

parseVercelEnvLs(stdout) ==
  uniq(flatten([i \in DOMAIN stdout |-> VercelLineKeys(stdout[i])]))

\* parseConvexEnvList: the object built line by line.
RECURSIVE parseConvexEnvList(_)
parseConvexEnvList(stdout) ==
  IF stdout = << >> THEN << >>
  ELSE
    LET vars == parseConvexEnvList(SubSeq(stdout, 1, Len(stdout) - 1))
        line == trim(stdout[Len(stdout)])
        lower == toLowerCase(line)
        eqIdx == indexOf(line, "=")
        key == trim(SubSeq(line, 1, eqIdx - 1))
        value == trim(SubSeq(line, eqIdx + 1, Len(line)))
        first == firstToken(line)
        rest == trim(SubSeq(line, Len(first) + 1, Len(line)))
    IN IF Len(line) = 0 THEN vars
       ELSE IF line[1] = "#" THEN vars
       ELSE IF startsWith(lower, S_name_) THEN vars
       ELSE IF startsWith(lower, S_environment_variable) THEN vars
       ELSE IF startsWith(lower, S_convex) THEN vars
       ELSE IF eqIdx # 0
            THEN (IF isEnvVarName(key) THEN objSet(vars, key, value) ELSE vars)
       ELSE IF ~isEnvVarName(first) \/ first = line THEN vars
       ELSE objSet(vars, first, rest)

\* One iteration of parseNetlifyEnvListPlain's loop.
NetlifyLineKeys(raw) ==
  LET trimmed == trim(raw)
      eqIdx == indexOf(trimmed, "=")
      key == trim(SubSeq(trimmed, 1, eqIdx - 1))
  IN IF Len(trimmed) = 0 THEN << >>
     ELSE IF trimmed[1] = "#" THEN << >>
     ELSE IF eqIdx = 0 THEN << >>
     ELSE IF isEnvVarName(key) THEN << key >>
     ELSE << >>

parseNetlifyEnvListPlain(stdout) ==
  uniq(flatten([i \in DOMAIN stdout |-> NetlifyLineKeys(stdout[i])]))

\* A nullable result: `null`, or the value.
JsNull == [isNull |-> TRUE, val |-> << >>]
Some(v) == [isNull |-> FALSE, val |-> v]

\* tryParseFlySecretsList / tryParseWranglerSecretList on parsed JSON:
\* null unless an array; the names that are variable names, once each.
tryParseSecretsList(json) ==
  IF json.kind # "array" THEN JsNull
  ELSE Some(uniq(SelectSeq([i \in DOMAIN json.items |-> json.items[i].name],
                           isEnvVarName)))

\* objectToStringMap: null when a key is no variable name or when the
\* object is empty.
objectToStringMap(items) ==
  IF \E i \in DOMAIN items : ~isEnvVarName(items[i].key) THEN JsNull
  ELSE IF items = << >> THEN JsNull
  ELSE Some(items)

\* arrayToVars: the object built from the records of an array, each giving
\* its name and its value.
RECURSIVE arrayToVars(_)
arrayToVars(values) ==
  IF values = << >> THEN << >>
  ELSE LET out == arrayToVars(SubSeq(values, 1, Len(values) - 1))
           item == values[Len(values)]
       IN IF ~isEnvVarName(item.name) THEN out
          ELSE objSet(out, item.name, item.value)

\* parseRailwayVariables on parsed JSON: an array of records, or an
\* object map; null for anything else.
parseRailwayVariables(json) ==
  IF json.kind = "array" THEN Some(arrayToVars(json.items))
  ELSE IF json.kind = "object" THEN objectToStringMap(json.items)
  ELSE JsNull

\* parseRailwayPlainVariables: the object built line by line.
RECURSIVE parseRailwayPlainVariables(_)
parseRailwayPlainVariables(stdout) ==
  IF stdout = << >> THEN << >>
  ELSE
    LET out == parseRailwayPlainVariables(SubSeq(stdout, 1, Len(stdout) - 1))
        line == trim(stdout[Len(stdout)])
        eq == indexOf(line, "=")
        key == trim(SubSeq(line, 1, eq - 1))
        value == trim(SubSeq(line, eq + 1, Len(line)))
        first == firstToken(line)
        rest == trim(SubSeq(line, Len(first) + 1, Len(line)))
    IN IF Len(line) = 0 THEN out
       ELSE IF line[1] = "#" THEN out
       ELSE IF eq # 0
            THEN (IF isEnvVarName(key) THEN objSet(out, key, value) ELSE out)
       ELSE IF isEnvVarName(first) THEN objSet(out, first, rest)
       ELSE out

\* ----------------------------------------------------------- configuration

\* The shipped adapters, and "custom": an adapter object that satisfies
\* BetterEnvAdapter without the optional listEnvVars (it runs the Vercel
\* commands).
Adapters ==
  { "vercel", "convex", "fly", "railway", "netlify", "cloudflare", "custom" }

\* A load that does not test `adapter.listEnvVars`.
HasListEnvVars_Mut(a) == TRUE

\* adapter.listEnvVars is defined.
HasListEnvVars(a) == a # "custom"

\* The env file names of the default environment maps.
F_development ==
  << ".", "e", "n", "v", ".", "d", "e", "v", "e", "l", "o", "p", "m", "e", "n", "t" >>
F_preview ==
  << ".", "e", "n", "v", ".", "p", "r", "e", "v", "i", "e", "w" >>
F_production ==
  << ".", "e", "n", "v", ".", "p", "r", "o", "d", "u", "c", "t", "i", "o", "n" >>
F_test ==
  << ".", "e", "n", "v", ".", "t", "e", "s", "t" >>

\* A BetterEnvEnvironmentConfig object.
Entry(file, remote) == [is |-> "object", envFile |-> file, remote |-> remote]

\* The value `undefined` where an entry is expected.
UndefinedEntry == [is |-> "undefined", envFile |-> Undefined, remote |-> Undefined]

EnvNames == { "development", "preview", "production", "test" }

\* The map withDefaults falls back to when the adapter defines none.
BuiltinEnvironments ==
  [n \in EnvNames |->
     CASE n = "development" -> Entry(F_development, "development")
       [] n = "preview" -> Entry(F_preview, "preview")
       [] n = "production" -> Entry(F_production, "production")
       [] n = "test" -> Entry(F_test, Null)]

\* adapter.defaultEnvironments is defined.
HasDefaultEnvironments(a) ==
  a \in { "convex", "fly", "netlify", "railway", "cloudflare" }

\* adapter.defaultEnvironments()
defaultEnvironments(a) ==
  CASE a = "convex" ->
         [n \in EnvNames |->
            CASE n = "development" -> Entry(F_development, "development")
              [] n = "production" -> Entry(F_production, "production")
              [] n = "preview" -> Entry(F_preview, Null)
              [] n = "test" -> Entry(F_test, Null)]
    [] a = "fly" ->
         [n \in EnvNames |->
            CASE n = "development" -> Entry(F_development, "production")
              [] n = "preview" -> Entry(F_preview, "production")
              [] n = "production" -> Entry(F_production, "production")
              [] n = "test" -> Entry(F_test, Null)]
    [] a = "netlify" ->
         [n \in EnvNames |->
            CASE n = "development" -> Entry(F_development, "dev")
              [] n = "preview" -> Entry(F_preview, "deploy-preview")
              [] n = "production" -> Entry(F_production, "production")
              [] n = "test" -> Entry(F_test, Null)]
    [] a \in { "railway", "cloudflare" } ->
         [n \in EnvNames |->
            CASE n = "development" -> Entry(F_development, "development")
              [] n = "preview" -> Entry(F_preview, "preview")
              [] n = "production" -> Entry(F_production, "production")
              [] n = "test" -> Entry(F_test, Null)]

\* adapter.listEnvironments()
listEnvironments(a) ==
  CASE a \in { "vercel", "custom", "railway", "cloudflare" } ->
         << "development", "preview", "production" >>
    [] a = "convex" -> << "development", "production" >>
    [] a = "fly" -> << "production" >>
    [] a = "netlify" -> << "dev", "branch-deploy", "deploy-preview", "production" >>

\* A configuration that leaves `environments` out.
NoEnvironments == [given |-> FALSE, map |-> << >>]

\* A configuration that gives `environments`.
Environments(map) == [given |-> TRUE, map |-> map]

\* A withDefaults that lays the caller's entries over the defaults.
withDefaults_Mut(a, configEnvironments) ==
  LET defaults == IF HasDefaultEnvironments(a) THEN defaultEnvironments(a)
                  ELSE BuiltinEnvironments
  IN [n \in DOMAIN defaults \cup DOMAIN configEnvironments.map |->
        IF n \in DOMAIN configEnvironments.map THEN configEnvironments.map[n]
        ELSE defaults[n]]

\* withDefaults: config.environments ?? adapterDefaults ?? built-in map.
withDefaults(a, configEnvironments) ==
  IF configEnvironments.given THEN configEnvironments.map
  ELSE IF HasDefaultEnvironments(a) THEN defaultEnvironments(a)
  ELSE BuiltinEnvironments

\* Property names every object literal inherits from Object.prototype.
ObjectPrototypeProps ==
  { "constructor", "toString", "valueOf", "hasOwnProperty", "__proto__" }

\* What reading a property of an inherited member (a function, or
\* Object.prototype itself) gives: the member is truthy, its envFile and
\* remote are undefined.
InheritedMember == Entry(Undefined, Undefined)

\* envs[name] on an object literal: an own property, else an inherited
\* one, else undefined.
PropertyRead(envs, name) ==
  IF name \in DOMAIN envs THEN envs[name]
  ELSE IF name \in ObjectPrototypeProps THEN InheritedMember
  ELSE UndefinedEntry

\* A resolveEnvironmentName whose default is `production`.
resolveEnvironmentName_Mut(requested) ==
  IF requested = Undefined \/ requested = "" THEN "production" ELSE requested

\* resolveEnvironmentName
resolveEnvironmentName(requested) ==
  IF requested = Undefined \/ requested = "" THEN "development" ELSE requested

\* getEnvironmentConfig: `value`; the code throws `Unknown environment`
\* when it is falsy.
getEnvironmentConfig(envs, name) == PropertyRead(envs, name)

\* !value
Unknown(envConfig) == envConfig.is = "undefined"

\* A guard that tests `remote === undefined` in place of `!remote`.
NoRemote_Mut(envConfig) == envConfig.remote \in { Undefined, "" }

\* !envConfig.remote
NoRemote(envConfig) == envConfig.remote \in { Null, Undefined, "" }

\* The store a provider command addresses: Fly has one secret store per
\* app whatever environment is named; the others have one per environment.
Target(a, remote) == IF a = "fly" THEN "app" ELSE remote

Targets ==
  { "app", "development", "preview", "production", "dev", "deploy-preview" }

\* A Convex adapter that takes preview for a deployment too.
ConvexSupported_Mut(remote) == remote \in { "development", "production", "preview" }

\* toEnvironmentArgs of the Convex adapter throws for any other name.
ConvexSupported(remote) == remote \in { "development", "production" }

\* -------------------------------------------------------- dotenv, gitignore

\* The lines a dotenv file given to `load` may hold: KEY=value, for two
\* variable names and a numeric key with the second value, and for the
\* first name with the first value too.
FileLines ==
  { k \o << "=" >> \o V_2 : k \in { K_A, K_KEY, K_0 } }
    \cup { K_A \o << "=" >> \o V_1 }

RECURSIVE SeqsUpTo(_, _)
SeqsUpTo(S, n) ==
  IF n = 0 THEN { << >> }
  ELSE LET shorter == SeqsUpTo(S, n - 1)
       IN shorter \cup { Append(q, x) : q \in { r \in shorter : Len(r) = n - 1 }, x \in S }

\* A text file of the lines `ls`, each ended by a line feed.
RECURSIVE joinLines(_)
joinLines(ls) ==
  IF ls = << >> THEN << >> ELSE Head(ls) \o << "\n" >> \o joinLines(Tail(ls))

Files == { joinLines(ls) : ls \in SeqsUpTo(FileLines, MaxFileLen) }

\* content.replace(/\r\n?/g, "\n")
RECURSIVE normalizeNewlines(_)
normalizeNewlines(s) ==
  IF s = << >> THEN << >>
  ELSE IF s[1] = "\r"
  THEN << "\n" >> \o normalizeNewlines(
         IF Len(s) >= 2 /\ s[2] = "\n" THEN SubSeq(s, 3, Len(s)) ELSE Tail(s))
  ELSE << s[1] >> \o normalizeNewlines(Tail(s))

\* content.split("\n")
RECURSIVE split(_)
split(content) ==
  LET nl == indexOf(content, "\n")
  IN IF nl = 0 THEN << content >>
     ELSE << SubSeq(content, 1, nl - 1) >> \o split(SubSeq(content, nl + 1, Len(content)))

\* [\w.-]
KeyChars == Letters \cup Digits \cup { "_", ".", "-" }

\* How many characters of `s` from position `from` on are in `set`
\* before one that is not: what a greedy `[set]*` takes.
RECURSIVE runLength(_, _, _)
runLength(s, from, set) ==
  IF from <= Len(s) /\ s[from] \in set THEN 1 + runLength(s, from + 1, set) ELSE 0

S_export == << "e", "x", "p", "o", "r", "t" >>

\* lineRegex from position `from` of a trimmed line, after the optional
\* `export\s+`: the key is the longest run of key characters; then
\* `\s*=`, or `:` and one whitespace character; the second group takes
\* the rest of the line, so a trailing `# comment` stays in the value.
matchFrom(line, from) ==
  LET keyLen == runLength(line, from, KeyChars)
      afterKey == from + keyLen
      eqPos == afterKey + runLength(line, afterKey, Whitespace)
      key == SubSeq(line, from, afterKey - 1)
  IN IF keyLen = 0 THEN JsNull
     ELSE IF eqPos <= Len(line) /\ line[eqPos] = "="
     THEN Some([key |-> key, value |-> SubSeq(line, eqPos + 1, Len(line))])
     ELSE IF afterKey + 1 <= Len(line) /\ line[afterKey] = ":"
             /\ line[afterKey + 1] \in Whitespace
     THEN Some([key |-> key, value |-> SubSeq(line, afterKey + 2, Len(line))])
     ELSE JsNull

\* trimmed.match(lineRegex): null, or the groups [key, value].  The
\* prefix `export\s+` is taken when the match goes through with it.
lineRegex(line) ==
  LET ws == runLength(line, Len(S_export) + 1, Whitespace)
      exported == matchFrom(line, Len(S_export) + 1 + ws)
  IN IF startsWith(line, S_export) /\ ws > 0 /\ ~exported.isNull
     THEN exported
     ELSE matchFrom(line, 1)

\* replaceAll of the two characters backslash, `c` by the character `r`.
RECURSIVE replaceAllEscape(_, _, _)
replaceAllEscape(s, c, r) ==
  IF s = << >> THEN << >>
  ELSE IF Len(s) >= 2 /\ s[1] = "\\" /\ s[2] = c
  THEN << r >> \o replaceAllEscape(SubSeq(s, 3, Len(s)), c, r)
  ELSE << s[1] >> \o replaceAllEscape(Tail(s), c, r)

normalizeValue(value) ==
  IF Len(value) = 0 THEN << >>
  ELSE LET first == value[1]
           last == value[Len(value)]
           inner == SubSeq(value, 2, Len(value) - 1)
       IN IF (first = "\"" /\ last = "\"") \/ (first = "'" /\ last = "'")
          THEN IF first = "\""
               THEN replaceAllEscape(replaceAllEscape(inner, "n", "\n"), "r", "\r")
               ELSE inner
          ELSE value

\* The loop of parseDotenv over the lines.
RECURSIVE parseLines(_)
parseLines(lines) ==
  IF lines = << >> THEN << >>
  ELSE LET result == parseLines(SubSeq(lines, 1, Len(lines) - 1))
           trimmed == trim(lines[Len(lines)])
           match == lineRegex(trimmed)
       IN IF Len(trimmed) = 0 THEN result
          ELSE IF trimmed[1] = "#" THEN result
          ELSE IF match.isNull THEN result
          ELSE objSet(result, match.val.key, normalizeValue(trim(match.val.value)))

\* parseDotenv: the object of the file's assignments.
parseDotenv(content) == parseLines(split(normalizeNewlines(content)))

GitignoreHeader ==
  << "#", " ", "b", "e", "t", "t", "e", "r", "-", "e", "n", "v", " ",
     "(", "g", "e", "n", "e", "r", "a", "t", "e", "d", ")" >>

S_dotenv == << ".", "e", "n", "v" >>
S_dotenv_star == << ".", "e", "n", "v", "*" >>
S_dotenv_dot_star == << ".", "e", "n", "v", ".", "*" >>

\* isCoveredByGitignore, on the set of the trimmed, non-empty lines.
isCoveredByGitignore(existing, target) ==
  \/ target \in existing
  \/ (<< "/" >> \o target) \in existing
  \/ /\ startsWith(target, S_dotenv)
     /\ S_dotenv_star \in existing \/ S_dotenv_dot_star \in existing

\* ensureGitIgnored for one relative path, on the lines of .gitignore
\* (no line for a file that is missing or empty): the file is left alone
\* when the path is covered, else a block of the header and the path is
\* appended, after an empty line unless the file is empty or ends in one.
ensureGitIgnored(lines, path) ==
  IF isCoveredByGitignore({ trim(lines[i]) : i \in DOMAIN lines } \ { << >> }, path)
  THEN lines
  ELSE IF lines = << >> THEN << GitignoreHeader, path >>
  ELSE IF lines[Len(lines)] = << >> THEN lines \o << GitignoreHeader, path >>
  ELSE lines \o << << >>, GitignoreHeader, path >>

\* A gitignore pattern with its one wildcard, "*", which matches any run
\* of characters but "/".
RECURSIVE globMatch(_, _)
globMatch(pat, s) ==
  IF pat = << >> THEN s = << >>
  ELSE IF pat[1] = "*"
  THEN \/ globMatch(Tail(pat), s)
       \/ s # << >> /\ s[1] # "/" /\ globMatch(pat, Tail(s))
  ELSE s # << >> /\ s[1] = pat[1] /\ globMatch(Tail(pat), Tail(s))

\* How git reads one line of .gitignore for a file in the directory of
\* .gitignore: a blank line and a line that starts with "#" are no
\* patterns; trailing blanks do not count; "!" negates the pattern; a
\* leading "/" ties it to this directory.
gitPattern(line) ==
  LET text == trimEnd(line)
      negated == text # << >> /\ text[1] = "!"
      body == IF negated THEN Tail(text) ELSE text
  IN [is |-> text # << >> /\ text[1] # "#",
      negated |-> negated,
      glob |-> IF body # << >> /\ body[1] = "/" THEN Tail(body) ELSE body]

\* git ignores the file: of the patterns that match it the last one
\* decides, and it is not a negated one.
gitIgnores(lines, path) ==
  LET matching == { i \in DOMAIN lines :
                      gitPattern(lines[i]).is /\ globMatch(gitPattern(lines[i]).glob, path) }
  IN /\ matching # { }
     /\ ~gitPattern(lines[CHOOSE i \in matching : \A j \in matching : j <= i]).negated

\* config.gitignore?.ensure ?? true, for a configuration without `gitignore`.
GitignoreEnsure == TRUE

\* A configuration that leaves `gitignore` out.
NoGitignore == [given |-> FALSE, ensure |-> FALSE]

\* withDefaults: config.gitignore?.ensure ?? true
ensureWithDefault(configGitignore) ==
  IF configGitignore.given THEN configGitignore.ensure ELSE GitignoreEnsure

\* The object a better-env.ts exports, the adapter aside.
Config(configEnvironments, configGitignore) ==
  [environments |-> configEnvironments, gitignore |-> configGitignore]

\* a.localeCompare(b) < 0 for names made of letters, digits and "_".
CollationSeq == << "_" >> \o DigitSeq \o LowerSeq

rank(c) == CHOOSE i \in DOMAIN CollationSeq : CollationSeq[i] = toLowerChar(c)

RECURSIVE lessThan(_, _)
lessThan(a, b) ==
  IF a = << >> THEN b # << >>
  ELSE IF b = << >> THEN FALSE
  ELSE IF rank(a[1]) # rank(b[1]) THEN rank(a[1]) < rank(b[1])
  ELSE lessThan(Tail(a), Tail(b))

\* Object.entries(vars).sort(([a], [b]) => a.localeCompare(b))
RECURSIVE sortByKey(_)
sortByKey(obj) ==
  IF obj = << >> THEN << >>
  ELSE LET h == Head(obj)
           rest == sortByKey(Tail(obj))
       IN SelectSeq(rest, LAMBDA e : lessThan(e.key, h.key)) \o << h >>
          \o SelectSeq(rest, LAMBDA e : ~lessThan(e.key, h.key))

\* .map(([key, value]) => `${key}=${value}`), the lines of the file written.
DotenvLines(obj) == [i \in DOMAIN obj |-> obj[i].key \o << "=" >> \o obj[i].value]

\* lines.join("\n")
RECURSIVE join(_)
join(lines) ==
  IF lines = << >> THEN << >>
  ELSE IF Len(lines) = 1 THEN lines[1]
  ELSE Head(lines) \o << "\n" >> \o join(Tail(lines))

\* The text the Convex and Railway adapters write on pull: the sorted
\* lines joined, with a final line feed unless there is none.
DotenvContent(obj) ==
  LET content == join(DotenvLines(sortByKey(obj)))
  IN IF Len(content) > 0 THEN content \o << "\n" >> ELSE << >>

\* normalizeDotenvContent of the Netlify adapter.
normalizeDotenvContent(value) ==
  LET text == trimEnd(normalizeNewlines(value))
  IN IF Len(text) = 0 THEN << >> ELSE text \o << "\n" >>

\* The file `vercel env pull <file>` writes: KEY=value lines.
VercelEnvPullFile(st) == joinLines(KeyValueLines(st))

\* --------------------------------------------------------------- state

VARIABLES
  adapter,        \* config.adapter
  config,         \* what better-env.ts exports, before withDefaults
  environments,   \* config.environments after withDefaults
  gitignoreEnsure,\* config.gitignore.ensure after withDefaults
  argv,           \* the command line
  tokenIndex,     \* parseFlags: the index of the next token, from 1
  positionals,    \* parseFlags: positionals
  flags,          \* parseFlags: environment and mode
  store,          \* the provider's variables, by target
  envFiles,       \* the local env files, by name
  gitignore,      \* the lines of .gitignore
  ncmds,          \* command runs started
  cmd,            \* the running (or last) command and its inputs
  pc,             \* where the running command is
  plan,           \* adapter operations the command has still to make
  existingKeys,   \* load --replace: what listEnvVars returned
  entries,        \* load: what parseDotenv returned
  calls,          \* executor calls of the command, in order
  adapterCalls,   \* adapter methods the command invoked, in order
  result,         \* how the command ended
  store0,         \* the provider's variables when the command started
  process,        \* the CLI process: whether it has exited, code, stderr
  invocations,    \* CLI processes that run side by side on one remote
  child,          \* exec: the child process and the result being built
  markers,        \* the provider marker files of the project directory
  configFile,     \* better-env.ts of the project directory
  terminal,       \* the answers typed at the prompts of the CLI, in order
  fnArgs,         \* a library function called by itself: its arguments
  returned        \* a library function called by itself: what it returned

configVars == << adapter, config, environments, gitignoreEnsure >>
cliVars == << argv, tokenIndex, positionals, flags >>
hostVars ==
  << process, invocations, child, markers, configFile, terminal, fnArgs, returned >>

vars == << configVars, cliVars, hostVars, store, envFiles, gitignore, ncmds, cmd, pc,
           plan, existingKeys, entries, calls, adapterCalls, result, store0 >>

ExitCodes == { 0, 1 }

NoKey == << >>

\* A provider subprocess: what it was started for, its exit code, and how
\* many subprocesses of the same CLI process were running when it started.
Call(op, target, key, value, exit) ==
  [op |-> op, target |-> target, key |-> key, value |-> value, exit |-> exit,
   alive |-> 0]

AdapterCall(method, environment, key, value) ==
  [method |-> method, environment |-> environment, key |-> key, value |-> value]

Op(method, key, value) == [method |-> method, key |-> key, value |-> value]

Cmd(op, environmentName, key, value, mode, file) ==
  [op |-> op, environmentName |-> environmentName, key |-> key,
   value |-> value, mode |-> mode, file |-> file]

EnvFileNames ==
  { F_development, F_preview, F_production, F_test }

\* A file that does not exist, and a file with its text.
NoFile == [exists |-> FALSE, content |-> << >>]
FileOf(content) == [exists |-> TRUE, content |-> content]

\* The names a caller may give with --environment: none, mapped to a
\* remote, local-only, unknown, and a property of Object.prototype.
RequestNames ==
  { Undefined, "production", "test", "staging", "constructor" }

\* The remote store before the run: any subset of the keys under the
\* first value, in the target of `development`; the other targets empty.
SeedStores ==
  { st \in [Keys -> { V_1, Absent }] : \A k \in Keys : ~isEnvVarName(k) => st[k] = Absent }

\* The CLI process is running and has printed no error.
Running == [exited |-> FALSE, exitCode |-> 0, stderr |-> << >>]

\* exec has not been called.
NoChild == [state |-> "none"]

\* better-env.ts: missing, or exporting an adapter.
NoConfigFile == [exists |-> FALSE, adapter |-> "none", writes |-> 0]
ConfigFileOf(a) == [exists |-> TRUE, adapter |-> a, writes |-> 0]

\* One CLI process in a project whose better-env.ts is loaded.
HostIdle ==
  /\ process = Running
  /\ invocations = << >>
  /\ child = NoChild
  /\ markers = { }
  /\ configFile = ConfigFileOf(adapter)
  /\ terminal = << >>
  /\ fnArgs = << >>
  /\ returned = << >>

\* No command line is being parsed.
NoFlags == [environment |-> Undefined, mode |-> "upsert", yes |-> FALSE]

CliIdle ==
  /\ argv = << >>
  /\ tokenIndex = 1
  /\ positionals = << >>
  /\ flags = NoFlags

\* No command has run.
NoCommand ==
  /\ ncmds = 0
  /\ cmd = Cmd("none", Undefined, NoKey, NoValue, "", << >>)
  /\ plan = << >>
  /\ existingKeys = << >>
  /\ entries = << >>
  /\ calls = << >>
  /\ adapterCalls = << >>
  /\ result = "none"

\* The remote stores with `st` in the target of `development`.
SeededStore(st) ==
  [t \in Targets |->
     IF t = Target(adapter, environments["development"].remote)
     THEN st ELSE EmptyStore]

\* A project whose better-env.ts names the adapter only, without local
\* env files or .gitignore, and any seeded remote store.
Init ==
  /\ adapter \in Adapters
  /\ config = Config(NoEnvironments, NoGitignore)
  /\ environments = withDefaults(adapter, config.environments)
  /\ gitignoreEnsure = ensureWithDefault(config.gitignore)
  /\ \E st \in SeedStores : store = SeededStore(st)
  /\ envFiles = [f \in EnvFileNames |-> NoFile]
  /\ gitignore = << >>
  /\ CliIdle
  /\ HostIdle
  /\ NoCommand
  /\ pc = "idle"
  /\ store0 = store

\* The running command's environment, entry and provider target.
CurEnvironment == resolveEnvironmentName(cmd.environmentName)
CurEnvConfig == getEnvironmentConfig(environments, CurEnvironment)
CurRemote == CurEnvConfig.remote

\* A Fly adapter that keeps one secret set for each logical environment.
CurTarget_Mut == IF adapter = "fly" THEN CurEnvironment ELSE Target(adapter, CurRemote)

CurTarget == Target(adapter, CurRemote)

\* ------------------------------------------------- adapter listing calls

\* One listing by the adapter's own list function (envVarExists, listKeys,
\* listVars, listVariables): the executor calls it makes with their exit
\* codes, whether it returns, and the keys (and, where the adapter reads
\* them, the values) it returns.
ListResult(cs, ok, keys, vs) == [calls |-> cs, ok |-> ok, keys |-> keys, vars |-> vs]

ListCall(a, remote, e) == Call("list", Target(a, remote), NoKey, NoValue, e)

\* The second listing command of a Promise.all of two.
ParallelListCall(a, remote, e) == [ListCall(a, remote, e) EXCEPT !.alive = 1]

VercelList(a, remote, st) ==
  { ListResult(<< ListCall(a, remote, e) >>, e = 0,
               IF e = 0 THEN parseVercelEnvLs(VercelEnvLsStdout(st)) ELSE << >>,
               << >>) : e \in ExitCodes }

ConvexList(a, remote, st) ==
  { ListResult(<< ListCall(a, remote, e) >>, e = 0,
               IF e = 0 THEN objKeys(parseConvexEnvList(KeyValueLines(st))) ELSE << >>,
               IF e = 0 THEN parseConvexEnvList(KeyValueLines(st)) ELSE << >>)
      : e \in ExitCodes }

NetlifyList(a, remote, st) ==
  { ListResult(<< ListCall(a, remote, e) >>, e = 0,
               IF e = 0 THEN parseNetlifyEnvListPlain(KeyValueLines(st)) ELSE << >>,
               << >>) : e \in ExitCodes }

FlyList(a, remote, st) ==
  { ListResult(<< ListCall(a, remote, e) >>,
               e = 0 /\ ~tryParseSecretsList(JsonNameArray(st)).isNull,
               IF e = 0 THEN tryParseSecretsList(JsonNameArray(st)).val ELSE << >>,
               << >>) : e \in ExitCodes }

\* Two listing commands are started together; the first that exited 0
\* with parseable output gives the result.
CloudflareList(a, remote, st) ==
  { ListResult(<< ListCall(a, remote, e1), ParallelListCall(a, remote, e2) >>,
               (e1 = 0 \/ e2 = 0) /\ ~tryParseSecretsList(JsonNameArray(st)).isNull,
               IF e1 = 0 \/ e2 = 0
               THEN tryParseSecretsList(JsonNameArray(st)).val ELSE << >>,
               << >>) : e1 \in ExitCodes, e2 \in ExitCodes }

\* Two JSON listing commands are started together; when neither gives a
\* usable result a plain-text listing follows.
RailwayList(a, remote, st) ==
  LET json == parseRailwayVariables(RailwayJsonStdout(st))
      plain == parseRailwayPlainVariables(KeyValueLines(st))
      usable(e1, e2) == (e1 = 0 \/ e2 = 0) /\ ~json.isNull
  IN { ListResult(<< ListCall(a, remote, e1), ParallelListCall(a, remote, e2) >>,
                  TRUE, objKeys(json.val), json.val)
         : <<e1, e2>> \in { x \in ExitCodes \X ExitCodes : usable(x[1], x[2]) } }
     \cup
     { ListResult(<< ListCall(a, remote, x[1]), ParallelListCall(a, remote, x[2]),
                     ListCall(a, remote, x[3]) >>,
                  x[3] = 0,
                  IF x[3] = 0 THEN objKeys(plain) ELSE << >>,
                  IF x[3] = 0 THEN plain ELSE << >>)
         : x \in { y \in ExitCodes \X ExitCodes \X ExitCodes : ~usable(y[1], y[2]) } }

ListOutcomes(a, remote, st) ==
  CASE a \in { "vercel", "custom" } -> VercelList(a, remote, st)
    [] a = "convex" -> ConvexList(a, remote, st)
    [] a = "netlify" -> NetlifyList(a, remote, st)
    [] a = "fly" -> FlyList(a, remote, st)
    [] a = "cloudflare" -> CloudflareList(a, remote, st)
    [] a = "railway" -> RailwayList(a, remote, st)

\* ------------------------------------------------- provider write commands

\* The provider's set command on its store.
ProviderSet(st, key, value) == [st EXCEPT ![key] = value]

\* The provider's unset command on its store.
ProviderUnset(st, key) == [st EXCEPT ![key] = Absent]

\* The exit codes a set command can end with: `vercel env add` without
\* --force refuses a name that exists; any command may fail.
SetExitCodes(force, st, key) ==
  IF ~force /\ st[key] # Absent THEN { 1 } ELSE ExitCodes

\* --------------------------------------------------------------- actions

Finish(r) == pc' = "done" /\ result' = r

\* A command starts.
Begin(c) ==
  /\ ncmds' = ncmds + 1
  /\ cmd' = c
  /\ store0' = store
  /\ calls' = << >>
  /\ existingKeys' = << >>
  /\ UNCHANGED << configVars, cliVars, hostVars >>

\* An orchestration that catches the error and goes on with the next key.
Throw_Mut(r) ==
  /\ UNCHANGED store
  /\ plan' = Tail(plan)
  /\ IF Tail(plan) = << >>
     THEN adapterCalls' = adapterCalls /\ Finish("ok")
     ELSE /\ adapterCalls' =
               Append(adapterCalls,
                      [method |-> plan[2].method,
                       environment |-> adapterCalls[Len(adapterCalls)].environment,
                       key |-> plan[2].key, value |-> plan[2].value])
          /\ pc' = (IF plan[2].method = "delete" THEN "unset"
                    ELSE IF plan[2].method = "upsert" THEN "set"
                    ELSE "check")
          /\ result' = "none"

\* An adapter method throws after a command that changed nothing: the
\* error leaves the loops of the orchestration and ends the command.
Throw(r) ==
  /\ Finish(r)
  /\ UNCHANGED << store, plan, adapterCalls >>

\* An upsert that checks for the key as update does.
FirstStep_Mut(a, method) ==
  CASE method = "delete" -> "unset"
    [] method \in { "upsert", "update" } -> "check"
    [] method = "add" -> IF a \in { "vercel", "custom" } THEN "set" ELSE "check"

\* Adapters none of which passes --force with its set command for add.
Forced_Mut(a, method) == method # "add"

\* Whether the set command of a method overwrites an existing variable:
\* only `vercel env add` of add runs without --force.
Forced(a, method) == ~(a \in { "vercel", "custom" } /\ method = "add")

\* The executor command an adapter method starts with.
FirstStep(a, method) ==
  CASE method = "delete" -> "unset"
    [] method = "upsert" -> "set"
    [] method = "update" -> "check"
    [] method = "add" -> IF a \in { "vercel", "custom" } THEN "set" ELSE "check"

\* The orchestration goes on with the operations `p` after `done` adapter
\* calls: it returns when none is left, else it invokes the adapter
\* method of the first one, which runs up to its first executor call.
Enter(p, remote, done) ==
  /\ plan' = p
  /\ IF p = << >>
     THEN /\ adapterCalls' = done
          /\ Finish("ok")
     ELSE /\ adapterCalls' =
               Append(done, AdapterCall(Head(p).method, remote, Head(p).key, Head(p).value))
          /\ IF adapter = "convex" /\ ~ConvexSupported(remote)
             THEN Finish("unsupported-environment")
             ELSE pc' = FirstStep(adapter, Head(p).method) /\ result' = "none"

\* A Cloudflare adapter whose pull goes on to list the secrets.
pullThrows_Mut(a) == a = "fly"

\* The adapters whose pull does nothing but throw: "<Provider> adapter
\* cannot pull secret values for <environment>", with the advice to push
\* local dotenv files with `better-env load` (the result capability-gap).
pullThrows(a) == a \in { "fly", "cloudflare" }

\* pullEnv up to the adapter's first executor call.
pullEnv(environmentName) ==
  /\ Begin(Cmd("pull", environmentName, NoKey, NoValue, "", << >>))
  /\ plan' = << >>
  /\ entries' = << >>
  /\ UNCHANGED << store, envFiles, gitignore >>
  /\ LET envConfig ==
           getEnvironmentConfig(environments, resolveEnvironmentName(environmentName))
     IN IF Unknown(envConfig)
        THEN adapterCalls' = << >> /\ Finish("unknown-environment")
        ELSE IF NoRemote(envConfig)
        THEN adapterCalls' = << >> /\ Finish("ok")
        ELSE /\ adapterCalls' = << AdapterCall("pull", envConfig.remote, NoKey, NoValue) >>
             /\ IF pullThrows(adapter)
                THEN Finish("capability-gap")
                ELSE IF adapter = "convex" /\ ~ConvexSupported(envConfig.remote)
                THEN Finish("unsupported-environment")
                ELSE pc' = "pull" /\ result' = "none"

\* The rest of pullEnv: the adapter's pull writes the env file, then
\* ensureGitIgnored covers it.
PullWritten(content) ==
  /\ envFiles' = [envFiles EXCEPT ![CurEnvConfig.envFile] = FileOf(content)]
  /\ gitignore' = IF gitignoreEnsure
                  THEN ensureGitIgnored(gitignore, CurEnvConfig.envFile)
                  ELSE gitignore
  /\ Finish("ok")

\* adapter.pull: `vercel env pull` writes the file itself; the Netlify
\* adapter writes the listing's output; the Convex and Railway adapters
\* write the parsed variables, sorted.
ExecPull ==
  /\ pc = "pull"
  /\ UNCHANGED << configVars, cliVars, hostVars, store, ncmds, cmd, plan, existingKeys,
                  entries, adapterCalls, store0 >>
  /\ IF adapter \in { "vercel", "custom", "netlify" }
     THEN \E e \in ExitCodes :
            /\ calls' = Append(calls,
                 Call(IF adapter = "netlify" THEN "list" ELSE "pull",
                      CurTarget, NoKey, NoValue, e))
            /\ IF e = 0
               THEN PullWritten(
                      IF adapter = "netlify"
                      THEN normalizeDotenvContent(joinLines(KeyValueLines(store[CurTarget])))
                      ELSE VercelEnvPullFile(store[CurTarget]))
               ELSE Finish("cli-failure") /\ UNCHANGED << envFiles, gitignore >>
     ELSE \E o \in ListOutcomes(adapter, CurRemote, store[CurTarget]) :
            /\ calls' = calls \o o.calls
            /\ IF o.ok
               THEN PullWritten(DotenvContent(o.vars))
               ELSE Finish("cli-failure") /\ UNCHANGED << envFiles, gitignore >>

\* addEnvVar (add, upsert, update) up to the adapter's first executor call.
addEnvVar(mode, environmentName, key, value) ==
  /\ Begin(Cmd(mode, environmentName, key, value, "", << >>))
  /\ entries' = << >>
  /\ UNCHANGED << store, envFiles, gitignore >>
  /\ LET envConfig ==
           getEnvironmentConfig(environments, resolveEnvironmentName(environmentName))
     IN IF Unknown(envConfig)
        THEN plan' = << >> /\ adapterCalls' = << >> /\ Finish("unknown-environment")
        ELSE IF NoRemote(envConfig)
        THEN plan' = << >> /\ adapterCalls' = << >> /\ Finish("local-only")
        ELSE Enter(<< Op(mode, key, value) >>, envConfig.remote, << >>)

\* deleteEnvVar up to the adapter's executor call.
deleteEnvVar(environmentName, key) ==
  /\ Begin(Cmd("delete", environmentName, key, NoValue, "", << >>))
  /\ entries' = << >>
  /\ UNCHANGED << store, envFiles, gitignore >>
  /\ LET envConfig ==
           getEnvironmentConfig(environments, resolveEnvironmentName(environmentName))
     IN IF Unknown(envConfig)
        THEN plan' = << >> /\ adapterCalls' = << >> /\ Finish("unknown-environment")
        ELSE IF NoRemote(envConfig)
        THEN plan' = << >> /\ adapterCalls' = << >> /\ Finish("local-only")
        ELSE Enter(<< Op("delete", key, NoValue) >>, envConfig.remote, << >>)

\* The second loop of loadEnvFileToRemote: one adapter operation an entry,
\* in the order of Object.entries(entries).
ApplyOps(mode, ents) ==
  [i \in DOMAIN ents |->
     Op(IF mode \in { "add", "update" } THEN mode ELSE "upsert",
        ents[i].key, ents[i].value)]

\* A replace that deletes every listed key before it writes the file's.
toDelete_Mut(existing, ents) == existing

\* existingKeys.filter((k) => !nextKeys.has(k))
toDelete(existing, ents) ==
  SelectSeq(existing, LAMBDA k : k \notin Range(objKeys(ents)))

\* The first loop of loadEnvFileToRemote: one delete a stale key.
DeleteOps(keys) == [i \in DOMAIN keys |-> Op("delete", keys[i], NoValue)]

\* A replace that writes the file's entries before it deletes stale keys.
ReplaceOps_Mut(existing, ents) ==
  ApplyOps("replace", ents) \o DeleteOps(toDelete(existing, ents))

\* What load --replace does once the listing is back.
ReplaceOps(existing, ents) ==
  DeleteOps(toDelete(existing, ents)) \o ApplyOps("replace", ents)

\* loadEnvFileToRemote up to the first executor call.
loadEnvFileToRemote(environmentName, file, mode) ==
  /\ Begin(Cmd("load", environmentName, NoKey, NoValue, mode, file))
  /\ UNCHANGED << store, envFiles, gitignore >>
  /\ LET envConfig ==
           getEnvironmentConfig(environments, resolveEnvironmentName(environmentName))
         parsed == parseDotenv(file)
     IN IF Unknown(envConfig)
        THEN /\ plan' = << >> /\ adapterCalls' = << >> /\ entries' = << >>
             /\ Finish("unknown-environment")
        ELSE IF NoRemote(envConfig)
        THEN /\ plan' = << >> /\ adapterCalls' = << >> /\ entries' = << >>
             /\ Finish("local-only")
        ELSE /\ entries' = parsed
             /\ IF mode = "replace"
                THEN IF ~HasListEnvVars(adapter)
                     THEN plan' = << >> /\ adapterCalls' = << >>
                          /\ Finish("replace-unsupported")
                     ELSE /\ plan' = << >>
                          /\ adapterCalls' =
                               << AdapterCall("listEnvVars", envConfig.remote, NoKey, NoValue) >>
                          /\ IF adapter = "convex" /\ ~ConvexSupported(envConfig.remote)
                             THEN Finish("unsupported-environment")
                             ELSE pc' = "list" /\ result' = "none"
                ELSE Enter(ApplyOps(mode, parsed), envConfig.remote, << >>)

\* load --replace: adapter.listEnvVars returns, the stale keys are
\* computed and the first delete (or upsert) is invoked.
ExecListEnvVars ==
  /\ pc = "list"
  /\ UNCHANGED << configVars, cliVars, hostVars, store, envFiles, gitignore, ncmds, cmd,
                  entries, store0 >>
  /\ \E o \in ListOutcomes(adapter, CurRemote, store[CurTarget]) :
       /\ calls' = calls \o o.calls
       /\ IF o.ok
          THEN /\ existingKeys' = o.keys
               /\ Enter(ReplaceOps(o.keys, entries), CurRemote,
                        adapterCalls)
          ELSE /\ Finish("cli-failure")
               /\ UNCHANGED << plan, existingKeys, adapterCalls >>

\* add / update: the existence check on the adapter's own listing.
ExecExists ==
  /\ pc = "check"
  /\ UNCHANGED << configVars, cliVars, hostVars, store, envFiles, gitignore, ncmds, cmd,
                  plan, existingKeys, entries, adapterCalls, store0 >>
  /\ \E o \in ListOutcomes(adapter, CurRemote, store[CurTarget]) :
       /\ calls' = calls \o o.calls
       /\ LET op == Head(plan)
              exists == op.key \in Range(o.keys)
          IN IF ~o.ok THEN Finish("cli-failure")
             ELSE IF op.method = "add" /\ exists THEN Finish("already-exists")
             ELSE IF op.method = "update" /\ ~exists THEN Finish("does-not-exist")
             ELSE pc' = "set" /\ result' = "none"

\* The set command of add / upsert / update; on exit 0 the operation
\* returns and the orchestration goes on.
ExecSet ==
  /\ pc = "set"
  /\ UNCHANGED << configVars, cliVars, hostVars, envFiles, gitignore, ncmds, cmd,
                  existingKeys, entries, store0 >>
  /\ LET op == Head(plan)
         force == Forced(adapter, op.method)
     IN \E e \in SetExitCodes(force, store[CurTarget], op.key) :
          /\ calls' = Append(calls,
               Call(IF force THEN "set" ELSE "add", CurTarget, op.key, op.value, e))
          /\ IF e = 0
             THEN /\ store' = [store EXCEPT
                                 ![CurTarget] = ProviderSet(@, op.key, op.value)]
                  /\ Enter(Tail(plan), CurRemote, adapterCalls)
             ELSE Throw("cli-failure")

\* The unset command of delete.
ExecUnset ==
  /\ pc = "unset"
  /\ UNCHANGED << configVars, cliVars, hostVars, envFiles, gitignore, ncmds, cmd,
                  existingKeys, entries, store0 >>
  /\ LET op == Head(plan)
     IN \E e \in ExitCodes :
          /\ calls' = Append(calls, Call("unset", CurTarget, op.key, NoValue, e))
          /\ IF e = 0
             THEN /\ store' = [store EXCEPT ![CurTarget] = ProviderUnset(@, op.key)]
                  /\ Enter(Tail(plan), CurRemote, adapterCalls)
             ELSE Throw("cli-failure")

LoadModes == { "add", "update", "upsert", "replace" }

\* The command that has ended is run again with the same arguments.
Again ==
  /\ pc = "done"
  /\ ncmds < MaxRuns
  /\ \/ cmd.op = "pull" /\ pullEnv(cmd.environmentName)
     \/ /\ cmd.op \in { "add", "upsert", "update" }
        /\ addEnvVar(cmd.op, cmd.environmentName, cmd.key, cmd.value)
     \/ cmd.op = "delete" /\ deleteEnvVar(cmd.environmentName, cmd.key)
     \/ cmd.op = "load" /\ loadEnvFileToRemote(cmd.environmentName, cmd.file, cmd.mode)

\* The commands of the CLI, each with any arguments.
PullCmd == pc = "idle" /\ \E n \in RequestNames : pullEnv(n)

MutateCmd ==
  /\ pc = "idle"
  /\ \E m \in { "add", "upsert", "update" }, n \in RequestNames, k \in Keys,
        v \in Values : addEnvVar(m, n, k, v)

DeleteCmd == pc = "idle" /\ \E n \in RequestNames, k \in Keys : deleteEnvVar(n, k)

LoadCmd ==
  /\ pc = "idle"
  /\ \E n \in RequestNames, f \in Files, m \in LoadModes :
       loadEnvFileToRemote(n, f, m)

Next ==
  \/ PullCmd
  \/ MutateCmd
  \/ DeleteCmd
  \/ LoadCmd
  \/ Again
  \/ ExecPull
  \/ ExecListEnvVars
  \/ ExecExists
  \/ ExecSet
  \/ ExecUnset

Spec == Init /\ [][Next]_vars

\* ------------------------------------------------- the CLI process

\* An entry point that prints the error and ends normally.
exitProcess_Mut(r) ==
  IF r = "ok" THEN [exited |-> TRUE, exitCode |-> 0, stderr |-> << >>]
  ELSE [exited |-> TRUE, exitCode |-> 0, stderr |-> << r >>]

\* cli.ts: when runCli returns the process ends with code 0; when it
\* throws, the catch prints the message with console.error and calls
\* process.exit(1).
exitProcess(r) ==
  IF r = "ok" THEN [exited |-> TRUE, exitCode |-> 0, stderr |-> << >>]
  ELSE [exited |-> TRUE, exitCode |-> 1, stderr |-> << r >>]

\* The promise of runCli settles and the process ends.
Exit ==
  /\ pc = "done"
  /\ process' = exitProcess(result)
  /\ pc' = "exited"
  /\ UNCHANGED << configVars, cliVars, invocations, child, markers, configFile, terminal, fnArgs, returned,
                  store, envFiles, gitignore, ncmds, cmd, plan, existingKeys,
                  entries, calls, adapterCalls, result, store0 >>

\* One run of the CLI with one command, to the end of the process.
CliNext ==
  \/ PullCmd
  \/ MutateCmd
  \/ DeleteCmd
  \/ LoadCmd
  \/ ExecPull
  \/ ExecListEnvVars
  \/ ExecExists
  \/ ExecSet
  \/ ExecUnset
  \/ Exit

CliSpec == Init /\ [][CliNext]_vars

\* ------------------------------------------------- JSON listings

\* String.prototype.lastIndexOf for a one-character needle; 0 stands for -1.
lastIndexOf(s, c) ==
  IF \E i \in DOMAIN s : s[i] = c
  THEN CHOOSE i \in DOMAIN s : s[i] = c /\ \A j \in (i + 1)..Len(s) : s[j] # c
  ELSE 0

\* The records a listing shows, and the arrays of them.
JsonRecords == { [name |-> K_A, value |-> V_1], [name |-> K_KEY, value |-> V_2] }
JsonArrays ==
  { << >> } \cup { << r >> : r \in JsonRecords }
  \cup { << r1, r2 >> : <<r1, r2>> \in { x \in JsonRecords \X JsonRecords : x[1] # x[2] } }

\* JSON.stringify of a record and of an array of records.
JsonRecordText(r) ==
  << "{", "\"", "n", "a", "m", "e", "\"", ":", "\"" >> \o r.name
  \o << "\"", ",", "\"", "v", "a", "l", "u", "e", "\"", ":", "\"" >> \o r.value
  \o << "\"", "}" >>

RECURSIVE JsonItemsText(_)
JsonItemsText(items) ==
  IF items = << >> THEN << >>
  ELSE IF Len(items) = 1 THEN JsonRecordText(items[1])
  ELSE JsonRecordText(Head(items)) \o << "," >> \o JsonItemsText(Tail(items))

JsonArrayText(items) == << "[" >> \o JsonItemsText(items) \o << "]" >>

\* JSON.parse on the texts of this model, in which the only valid JSON
\* documents are the arrays of records: the array a text writes, or a
\* throw.
JSONparse(text) ==
  IF \E items \in JsonArrays : JsonArrayText(items) = text
  THEN [kind |-> "array",
        items |-> CHOOSE items \in JsonArrays : JsonArrayText(items) = text]
  ELSE [kind |-> "throw"]

\* tryParseJson of the Fly and Cloudflare adapters: the whole text, else
\* the text from its first "[" to its last "]"; null when neither parses.
tryParseJson(value) ==
  LET trimmed == trim(value)
      start == indexOf(trimmed, "[")
      end == lastIndexOf(trimmed, "]")
  IN IF Len(trimmed) = 0 THEN [kind |-> "null"]
     ELSE IF JSONparse(trimmed).kind # "throw" THEN JSONparse(trimmed)
     ELSE IF start = 0 \/ end = 0 \/ start > end THEN [kind |-> "null"]
     ELSE IF JSONparse(SubSeq(trimmed, start, end)).kind # "throw"
     THEN JSONparse(SubSeq(trimmed, start, end))
     ELSE [kind |-> "null"]

\* safeJsonParse of the Railway adapter: the whole text or null.
safeJsonParse(value) ==
  LET trimmed == trim(value)
  IN IF Len(trimmed) = 0 THEN [kind |-> "null"]
     ELSE IF JSONparse(trimmed).kind # "throw" THEN JSONparse(trimmed)
     ELSE [kind |-> "null"]

\* The three parsers on the text of a listing.
tryParseFlySecretsList(stdout) == tryParseSecretsList(tryParseJson(stdout))
tryParseWranglerSecretList(stdout) == tryParseSecretsList(tryParseJson(stdout))
parseRailwayStdout(stdout) == parseRailwayVariables(safeJsonParse(stdout))

\* What a provider executable prints before its JSON: log lines, and a
\* JSON text that was cut off.
Banners ==
  { << >>,
    << "L", "i", "s", "t", "i", "n", "g", " ", "s", "e", "c", "r", "e", "t", "s" >>,
    << "[", "i", "n", "f", "o", "]", " ", "a", "p", "p" >> }
Fragments ==
  { << >>,
    << "{", "\"", "n", "a", "m", "e", "\"", ":" >>,
    << "[", "{", "\"", "n", "a", "m", "e", "\"", ":", "\"", "A", "\"" >> }

\* The listing text: the banner, the fragment and the array, a line each.
ListingText(banner, fragment, items) ==
  join(SelectSeq(<< banner, fragment, JsonArrayText(items) >>,
                 LAMBDA part : part # << >>))

\* A parser is about to be called on a listing text.
ParseInit ==
  /\ adapter = "fly"
  /\ config = Config(NoEnvironments, NoGitignore)
  /\ environments = withDefaults(adapter, config.environments)
  /\ gitignoreEnsure = ensureWithDefault(config.gitignore)
  /\ store = [t \in Targets |-> EmptyStore]
  /\ envFiles = [f \in EnvFileNames |-> NoFile]
  /\ gitignore = << >>
  /\ CliIdle
  /\ process = Running
  /\ invocations = << >>
  /\ child = NoChild
  /\ markers = { }
  /\ configFile = ConfigFileOf(adapter)
  /\ terminal = << >>
  /\ \E banner \in Banners, fragment \in Fragments, items \in JsonArrays :
       fnArgs = [banner |-> banner, fragment |-> fragment, items |-> items,
                 stdout |-> ListingText(banner, fragment, items)]
  /\ returned = [by |-> "none"]
  /\ NoCommand
  /\ pc = "parse"
  /\ store0 = store

libFrame ==
  UNCHANGED << configVars, cliVars, process, invocations, child, markers,
               configFile, terminal, fnArgs, store, envFiles, gitignore, ncmds,
               cmd, plan, existingKeys, entries, calls, adapterCalls, result,
               store0 >>

CallFlyParser ==
  /\ pc = "parse"
  /\ returned' = [by |-> "fly", val |-> tryParseFlySecretsList(fnArgs.stdout)]
  /\ pc' = "parsed"
  /\ libFrame

CallWranglerParser ==
  /\ pc = "parse"
  /\ returned' = [by |-> "cloudflare", val |-> tryParseWranglerSecretList(fnArgs.stdout)]
  /\ pc' = "parsed"
  /\ libFrame

CallRailwayParser ==
  /\ pc = "parse"
  /\ returned' = [by |-> "railway", val |-> parseRailwayStdout(fnArgs.stdout)]
  /\ pc' = "parsed"
  /\ libFrame

ParseNext ==
  \/ CallFlyParser
  \/ CallWranglerParser
  \/ CallRailwayParser

ParseSpec == ParseInit /\ [][ParseNext]_vars

\* ------------------------------------------------- init

\* init-config: the providers `init` can create a configuration for, in
\* the order of the prompt.
ADAPTERS == << "vercel", "netlify", "railway", "cloudflare", "fly", "convex" >>

\* inferAdapterFromProject: the marker files of each provider, in the
\* order they are checked.
MarkerChecks ==
  << [adapter |-> "vercel", markers |-> { ".vercel" }],
     [adapter |-> "netlify", markers |-> { ".netlify" }],
     [adapter |-> "railway", markers |-> { ".railway" }],
     [adapter |-> "cloudflare", markers |-> { ".wrangler", "wrangler.toml" }],
     [adapter |-> "fly", markers |-> { "fly.toml" }],
     [adapter |-> "convex", markers |-> { "convex", "convex.json" }] >>

\* The file whose presence tells a linked project, and the paths that
\* exist once it does.
LinkMarker(a) ==
  IF a = "vercel" THEN ".vercel/project.json" ELSE ".netlify/state.json"
LinkPaths(a) ==
  IF a = "vercel" THEN { ".vercel", ".vercel/project.json" }
  ELSE IF a = "netlify" THEN { ".netlify", ".netlify/state.json" }
  ELSE { }

\* The project directories init may start in: any marker files, a link
\* marker only inside its directory.
ProjectMarkers ==
  { ms \in SUBSET { ".vercel", ".vercel/project.json", ".netlify",
                    ".netlify/state.json", ".railway", ".wrangler",
                    "wrangler.toml", "fly.toml", "convex", "convex.json" } :
      /\ ".vercel/project.json" \in ms => ".vercel" \in ms
      /\ ".netlify/state.json" \in ms => ".netlify" \in ms }

\* An inferAdapterFromProject that keeps the last match.
inferAdapterFromProject_Mut(ms) ==
  LET hits == { i \in DOMAIN MarkerChecks : MarkerChecks[i].markers \cap ms # { } }
  IN IF hits = { } THEN Undefined
     ELSE MarkerChecks[CHOOSE i \in hits : \A j \in hits : j <= i].adapter

\* inferAdapterFromProject: the provider of the first check one of whose
\* markers exists, or undefined.
inferAdapterFromProject(ms) ==
  LET hits == { i \in DOMAIN MarkerChecks : MarkerChecks[i].markers \cap ms # { } }
  IN IF hits = { } THEN Undefined
     ELSE MarkerChecks[CHOOSE i \in hits : \A j \in hits : i <= j].adapter

\* Number.parseInt(s, 10) of a trimmed answer without a sign: the number
\* its leading digits spell, NaN when it starts with none.
NaN == 0 - 1
parseInt(s) ==
  LET n == runLength(s, 1, Digits)
  IN IF n = 0 THEN NaN ELSE toNumber(SubSeq(s, 1, n))

\* What is typed at the provider prompt.
Answers ==
  { << >>, << " " >>, << "1" >>, << "2" >>, << "3" >>, << "4" >>, << "5" >>,
    << "6" >>, << "0" >>, << "7" >>, << "x" >>, << "2", "x" >>,
    << " ", "3", " " >>, << "1", "0" >> }

InvalidSelection == "Invalid provider selection"

\* pickAdapter: with --yes the inferred provider, or vercel; else the
\* answer to the prompt: empty for the inferred provider or vercel, a
\* number from 1 to 6 for the provider at that place, and anything else
\* throws.
pickAdapter(ms, yes, answer) ==
  LET inferred == inferAdapterFromProject(ms)
      fallback == IF inferred = Undefined THEN "vercel" ELSE inferred
      trimmed == trim(answer)
      numeric == parseInt(trimmed)
  IN IF yes THEN fallback
     ELSE IF trimmed = << >> THEN fallback
     ELSE IF numeric = NaN \/ numeric < 1 \/ numeric > Len(ADAPTERS)
     THEN InvalidSelection
     ELSE ADAPTERS[numeric]

\* A better-env.ts whose export is neither a configuration nor an adapter.
InvalidConfigFile == [exists |-> TRUE, adapter |-> "invalid", writes |-> 0]

\* `better-env init` starts: any project directory, any better-env.ts or
\* none, with or without --yes.
InitInit ==
  /\ adapter = "none"
  /\ config = Config(NoEnvironments, NoGitignore)
  /\ environments = NoEnvironments
  /\ gitignoreEnsure = ensureWithDefault(config.gitignore)
  /\ store = [t \in Targets |-> EmptyStore]
  /\ envFiles = [f \in EnvFileNames |-> NoFile]
  /\ gitignore = << >>
  /\ argv = << >>
  /\ tokenIndex = 1
  /\ positionals = << >>
  /\ \E yes \in BOOLEAN : flags = [NoFlags EXCEPT !.yes = yes]
  /\ process = Running
  /\ invocations = << >>
  /\ child = NoChild
  /\ markers \in ProjectMarkers
  /\ configFile \in { NoConfigFile, InvalidConfigFile }
                      \cup { ConfigFileOf(a) : a \in Range(ADAPTERS) }
  /\ terminal = << >>
  /\ fnArgs = << >>
  /\ returned = << >>
  /\ NoCommand
  /\ pc = "config"
  /\ store0 = store

initFrame ==
  UNCHANGED << config, gitignoreEnsure, cliVars, process, invocations, child,
               fnArgs, returned,
               store, envFiles, gitignore, ncmds, cmd, existingKeys, entries,
               adapterCalls, store0 >>

\* The subprocesses the init of each adapter runs, in order.
initCommands(a) ==
  CASE a = "vercel" -> << "--version", "link" >>
    [] a = "netlify" -> << "--version", "link" >>
    [] a = "railway" -> << "whoami", "status", "link" >>
    [] a = "cloudflare" -> << "--version" >>
    [] a = "fly" -> << "version", "auth whoami", "secrets list" >>
    [] a = "convex" -> << "--version", "env list" >>

\* loadOrCreateConfigForInit: a better-env.ts that is found is loaded, and
\* an invalid export throws; when none is found pickAdapter chooses the
\* provider (asking unless --yes) and better-env.ts is written for it.
loadOrCreateConfigForInit ==
  /\ pc = "config"
  /\ IF configFile.exists
     THEN /\ IF configFile.adapter = "invalid"
             THEN /\ Finish("Invalid better-env.ts export")
                  /\ UNCHANGED << adapter, environments, plan >>
             ELSE /\ adapter' = configFile.adapter
                  /\ environments' = withDefaults(adapter', config.environments)
                  /\ plan' = initCommands(adapter')
                  /\ pc' = "init"
                  /\ UNCHANGED result
          /\ UNCHANGED << configFile, terminal >>
     ELSE \E answer \in IF flags.yes THEN { << >> } ELSE Answers :
            LET picked == pickAdapter(markers, flags.yes, answer)
            IN /\ terminal' = IF flags.yes THEN terminal ELSE Append(terminal, answer)
               /\ IF picked = InvalidSelection
                  THEN /\ Finish(InvalidSelection)
                       /\ UNCHANGED << adapter, plan, configFile >>
                  ELSE /\ configFile' = [exists |-> TRUE, adapter |-> picked,
                                         writes |-> configFile.writes + 1]
                       /\ adapter' = picked
                       /\ plan' = initCommands(picked)
                       /\ pc' = "init"
                       /\ UNCHANGED result
               /\ UNCHANGED environments
  /\ UNCHANGED << markers, calls >>
  /\ initFrame

\* A vercelAdapter.init that does not verify the link.
vercelInit_Mut(c, exit, ms) ==
  IF c = "--version"
  THEN IF exit # 0 THEN "Failed to run Vercel CLI"
       ELSE IF LinkMarker("vercel") \in ms THEN "ok" ELSE "next"
  ELSE IF exit # 0 THEN "vercel link failed" ELSE "ok"

\* vercelAdapter.init after command c ended with code exit, ms being the
\* files that exist then: an error message, "ok" for a return, or "next".
vercelInit(c, exit, ms) ==
  IF c = "--version"
  THEN IF exit # 0 THEN "Failed to run Vercel CLI"
       ELSE IF LinkMarker("vercel") \in ms THEN "ok" ELSE "next"
  ELSE IF exit # 0 THEN "vercel link failed"
       ELSE IF LinkMarker("vercel") \notin ms THEN "Vercel project is still not linked"
       ELSE "ok"

netlifyInit(c, exit, ms) ==
  IF c = "--version"
  THEN IF exit # 0 THEN "Failed to run Netlify CLI"
       ELSE IF LinkMarker("netlify") \in ms THEN "ok" ELSE "next"
  ELSE IF exit # 0 THEN "netlify link failed"
       ELSE IF LinkMarker("netlify") \notin ms THEN "Netlify project is still not linked"
       ELSE "ok"

railwayInit(c, exit) ==
  IF c = "whoami" THEN (IF exit # 0 THEN "Failed to run Railway CLI" ELSE "next")
  ELSE IF c = "status" THEN (IF exit = 0 THEN "ok" ELSE "next")
  ELSE IF exit # 0 THEN "railway link failed" ELSE "ok"

cloudflareInit(c, exit) ==
  IF exit # 0 THEN "Failed to run Wrangler CLI" ELSE "ok"

\* flyAdapter.init; app tells whether resolveAppName finds an app name.
flyInit(c, exit, app) ==
  IF c = "version" THEN (IF exit # 0 THEN "Failed to run Fly CLI" ELSE "next")
  ELSE IF c = "auth whoami"
  THEN IF exit # 0 THEN "Failed to authenticate with Fly CLI"
       ELSE IF ~app THEN "Fly adapter requires an app name"
       ELSE "next"
  ELSE IF exit # 0 THEN "Fly app is not accessible" ELSE "ok"

convexInit(c, exit) ==
  IF c = "--version" THEN (IF exit # 0 THEN "Failed to run Convex CLI" ELSE "next")
  ELSE IF exit # 0 THEN "Failed to access Convex development deployment" ELSE "ok"

\* initProject: the adapter's init runs its next subprocess, which ends
\* with any exit code; a link command may leave the link marker behind.
initProject ==
  /\ pc = "init"
  /\ plan # << >>
  /\ \E exit \in { 0, 1 }, made \in BOOLEAN, app \in BOOLEAN :
       LET c == Head(plan)
           ms == IF c = "link" /\ made THEN markers \cup LinkPaths(adapter)
                 ELSE markers
           o == CASE adapter = "vercel" -> vercelInit(c, exit, ms)
                  [] adapter = "netlify" -> netlifyInit(c, exit, ms)
                  [] adapter = "railway" -> railwayInit(c, exit)
                  [] adapter = "cloudflare" -> cloudflareInit(c, exit)
                  [] adapter = "fly" -> flyInit(c, exit, app)
                  [] adapter = "convex" -> convexInit(c, exit)
       IN /\ calls' = Append(calls, Call(c, adapter, NoKey, NoValue, exit))
          /\ markers' = ms
          /\ IF o = "next"
             THEN plan' = Tail(plan) /\ UNCHANGED << pc, result >>
             ELSE Finish(o) /\ UNCHANGED plan
  /\ UNCHANGED << adapter, environments, configFile, terminal >>
  /\ initFrame

InitNext ==
  \/ loadOrCreateConfigForInit
  \/ initProject
  \/ Exit

InitSpec == InitInit /\ [][InitNext]_vars

\* ------------------------------------------------- exec

\* Exit codes of a child process; NullCode stands for the `null` the
\* close event carries when the child has no exit code (ended by a
\* signal, or never spawned).
ChildCodes == { 0, 1, 2 }
NullCode == 0 - 1

\* The most data events of the child's stdout.
MaxChunks == 2

\* The command arrays exec is called with: empty, an empty command name,
\* a command, a command with an argument.
ExecCmds == { << >>, << << >> >>, << S_vercel >>, << S_vercel, S_dotenv >> }

\* A waitForExit that takes a missing exit code for success.
resolveClose_Mut(code) == IF code = NullCode THEN 0 ELSE code

\* waitForExit, the close listener: resolve(code ?? 1)
resolveClose(code) == IF code = NullCode THEN 1 ELSE code

\* The ExecResult exec returns.
ExecResult(exitCode, chunks, stderr) ==
  [exitCode |-> exitCode, chunks |-> chunks, stderr |-> stderr]

\* exec has been called with any command and options.
ExecInit ==
  /\ adapter = "vercel"
  /\ config = Config(NoEnvironments, NoGitignore)
  /\ environments = withDefaults(adapter, config.environments)
  /\ gitignoreEnsure = ensureWithDefault(config.gitignore)
  /\ store = [t \in Targets |-> EmptyStore]
  /\ envFiles = [f \in EnvFileNames |-> NoFile]
  /\ gitignore = << >>
  /\ CliIdle
  /\ process = Running
  /\ invocations = << >>
  /\ \E c \in ExecCmds, i \in BOOLEAN, w \in BOOLEAN :
       child = [state |-> "called", cmd |-> c, interactive |-> i, stdin |-> w,
                chunks |-> 0, errored |-> FALSE, closed |-> FALSE,
                code |-> NullCode, result |-> ExecResult(0, 0, "")]
  /\ markers = { }
  /\ configFile = ConfigFileOf(adapter)
  /\ terminal = << >>
  /\ fnArgs = << >>
  /\ returned = << >>
  /\ NoCommand
  /\ pc = "exec"
  /\ store0 = store

execFrame ==
  UNCHANGED << configVars, cliVars, process, invocations, markers, configFile, terminal, fnArgs, returned,
               store, envFiles, gitignore, ncmds, cmd, pc, plan, existingKeys,
               entries, calls, adapterCalls, result, store0 >>

\* exec up to its await: without a command it returns exit code 1; else
\* it spawns the child, writes stdin and attaches its listeners.
exec ==
  /\ child.state = "called"
  /\ child' = IF child.cmd = << >> \/ child.cmd[1] = << >>
              THEN [child EXCEPT !.state = "returned",
                                 !.result = ExecResult(1, 0, "No command provided")]
              ELSE [child EXCEPT !.state = "waiting"]
  /\ execFrame

\* A data event of the child's stdout, which is piped unless the call is
\* interactive: the chunk is added to `stdout`.
OnData ==
  /\ child.state \in { "waiting", "returned" }
  /\ child.cmd # << >> /\ child.cmd[1] # << >>
  /\ ~child.interactive
  /\ ~child.closed
  /\ child.chunks < MaxChunks
  /\ child' = [child EXCEPT !.chunks = @ + 1]
  /\ execFrame

\* The error event (the child could not be spawned, or killed): the
\* listener resolves with 1, which ends exec unless it has ended.
OnError ==
  /\ child.state \in { "waiting", "returned" }
  /\ child.cmd # << >> /\ child.cmd[1] # << >>
  /\ ~child.errored
  /\ ~child.closed
  /\ child' = IF child.state = "waiting"
              THEN [child EXCEPT !.errored = TRUE, !.state = "returned",
                                 !.result = ExecResult(1, IF child.interactive THEN 0
                                                          ELSE child.chunks, "")]
              ELSE [child EXCEPT !.errored = TRUE]
  /\ execFrame

\* The close event, with the child's exit code or null (always null when
\* the child was not spawned): the listener resolves with `code ?? 1`.
OnClose ==
  /\ child.state \in { "waiting", "returned" }
  /\ child.cmd # << >> /\ child.cmd[1] # << >>
  /\ ~child.closed
  /\ \E code \in ChildCodes \cup { NullCode } :
       child' = IF child.state = "waiting"
                THEN [child EXCEPT !.closed = TRUE, !.code = code, !.state = "returned",
                                   !.result = ExecResult(resolveClose(code),
                                                         IF child.interactive THEN 0
                                                         ELSE child.chunks, "")]
                ELSE [child EXCEPT !.closed = TRUE, !.code = code]
  /\ execFrame

ExecNext ==
  \/ exec
  \/ OnData
  \/ OnError
  \/ OnClose

ExecSpec == ExecInit /\ [][ExecNext]_vars

\* ------------------------------------------------- two CLI processes

\* A CLI process that runs add or update of A on development: where it
\* is, what its listing showed, how it ended.
Invocation(method, value) ==
  [method |-> method, key |-> K_A, value |-> value,
   pc |-> FirstStep(adapter, method), listed |-> FALSE, exists |-> FALSE,
   result |-> "none"]

Ended(inv, r) == [inv EXCEPT !.pc = "done", !.result = r]

\* The remote the two processes address.
SharedRemote == environments["development"].remote
SharedTarget == Target(adapter, SharedRemote)

\* Two processes are started side by side, the first to write the first
\* value and the second the second one, on a remote with or without A.
ConcInit ==
  /\ adapter \in Adapters
  /\ config = Config(NoEnvironments, NoGitignore)
  /\ environments = withDefaults(adapter, config.environments)
  /\ gitignoreEnsure = ensureWithDefault(config.gitignore)
  /\ \E a \in { V_1, Absent } :
       store = SeededStore([k \in Keys |-> IF k = K_A THEN a ELSE Absent])
  /\ envFiles = [f \in EnvFileNames |-> NoFile]
  /\ gitignore = << >>
  /\ CliIdle
  /\ process = Running
  /\ \E m1 \in { "add", "update" }, m2 \in { "add", "update" } :
       invocations = << Invocation(m1, V_1), Invocation(m2, V_2) >>
  /\ child = NoChild
  /\ markers = { }
  /\ configFile = ConfigFileOf(adapter)
  /\ terminal = << >>
  /\ fnArgs = << >>
  /\ returned = << >>
  /\ NoCommand
  /\ pc = "concurrent"
  /\ store0 = store

\* envVarExists of add / update in one process: it lists the remote as
\* it is now and decides.
InvExists(i) ==
  /\ invocations[i].pc = "check"
  /\ \E o \in ListOutcomes(adapter, SharedRemote, store[SharedTarget]) :
       /\ calls' = calls \o o.calls
       /\ LET inv == invocations[i]
              exists == inv.key \in Range(o.keys)
          IN invocations' =
               [invocations EXCEPT ![i] =
                  IF ~o.ok THEN Ended(inv, "cli-failure")
                  ELSE IF inv.method = "add" /\ exists
                  THEN [Ended(inv, "already-exists") EXCEPT !.listed = TRUE, !.exists = exists]
                  ELSE IF inv.method = "update" /\ ~exists
                  THEN [Ended(inv, "does-not-exist") EXCEPT !.listed = TRUE, !.exists = exists]
                  ELSE [inv EXCEPT !.pc = "set", !.listed = TRUE, !.exists = exists]]
  /\ UNCHANGED << configVars, cliVars, process, child, markers, configFile, terminal, fnArgs, returned, store,
                  envFiles, gitignore, ncmds, cmd, pc, plan, existingKeys, entries,
                  adapterCalls, result, store0 >>

\* The set command of add / update in one process, on the remote as it
\* is now.
InvSet(i) ==
  /\ invocations[i].pc = "set"
  /\ LET inv == invocations[i]
         force == Forced(adapter, inv.method)
     IN \E e \in SetExitCodes(force, store[SharedTarget], inv.key) :
          /\ calls' = Append(calls,
               Call(IF force THEN "set" ELSE "add", SharedTarget, inv.key, inv.value, e))
          /\ store' = IF e = 0
                      THEN [store EXCEPT ![SharedTarget] = ProviderSet(@, inv.key, inv.value)]
                      ELSE store
          /\ invocations' =
               [invocations EXCEPT ![i] = Ended(inv, IF e = 0 THEN "ok" ELSE "cli-failure")]
  /\ UNCHANGED << configVars, cliVars, process, child, markers, configFile, terminal, fnArgs, returned,
                  envFiles, gitignore, ncmds, cmd, pc, plan, existingKeys, entries,
                  adapterCalls, result, store0 >>

ConcNext == \E i \in { 1, 2 } : InvExists(i) \/ InvSet(i)

ConcSpec == ConcInit /\ [][ConcNext]_vars

\* ------------------------------------------------- loading better-env.ts

\* The entries a better-env.ts may give a name: `.env` for development as
\* in the documentation's override, with any remote.
CallerEntries(n) ==
  { Entry(IF n = "development" THEN S_dotenv ELSE F_preview, r)
      : r \in { Null, "development", "preview", "staging" } }

\* The `environments` of a better-env.ts: left out, or a map (the empty
\* one included) over development and preview.
CallerEnvironments ==
  { NoEnvironments } \cup
  UNION { { Environments(m) : m \in { f \in [names -> UNION { CallerEntries(n) : n \in names }] :
                                         \A n \in names : f[n] \in CallerEntries(n) } }
            : names \in SUBSET { "development", "preview" } }

\* The `gitignore` of a better-env.ts.
CallerGitignores ==
  { NoGitignore, [given |-> TRUE, ensure |-> TRUE], [given |-> TRUE, ensure |-> FALSE] }

\* A better-env.ts has been found and imported; its export is not yet
\* coerced.
ConfigInit ==
  /\ adapter \in Adapters
  /\ \E e \in CallerEnvironments, g \in CallerGitignores : config = Config(e, g)
  /\ environments = << >>
  /\ gitignoreEnsure = FALSE
  /\ store = [t \in Targets |-> EmptyStore]
  /\ envFiles = [f \in EnvFileNames |-> NoFile]
  /\ gitignore = << >>
  /\ CliIdle
  /\ HostIdle
  /\ NoCommand
  /\ pc = "config"
  /\ store0 = store

\* loadBetterEnvConfig: coerceConfig applies withDefaults to the export.
loadBetterEnvConfig ==
  /\ pc = "config"
  /\ environments' = withDefaults(adapter, config.environments)
  /\ gitignoreEnsure' = ensureWithDefault(config.gitignore)
  /\ pc' = "idle"
  /\ UNCHANGED << adapter, config, cliVars, hostVars, store, envFiles, gitignore, ncmds, cmd,
                  plan, existingKeys, entries, calls, adapterCalls, result, store0 >>

ConfigSpec == ConfigInit /\ [][loadBetterEnvConfig]_vars

\* ------------------------------------------------- pulls into a project

\* Values that hold a blank, quotes and an equals sign.
V_spaced == << " ", "1" >>
V_quoted == << "\"", "1", "\"" >>
V_eq == << "1", "=", "2" >>

\* The remote store before a pull: A under a plain or a special value,
\* KEY and CONVEX_A under the first value, each or none.
PullSeedStores ==
  { st \in [Keys -> { V_1, V_spaced, V_quoted, V_eq, Absent }] :
      /\ st[K_0] = Absent
      /\ st[K_KEY] \in { V_1, Absent }
      /\ st[K_CONVEX_A] \in { V_1, Absent } }

\* The text of an env file left by earlier work.
OldContent == << "O", "L", "D", "=", "1", "\n" >>

\* The env files of the project before a pull: none, or each with old text.
SeedEnvFiles ==
  { [f \in EnvFileNames |-> NoFile], [f \in EnvFileNames |-> FileOf(OldContent)] }

S_node_modules == << "n", "o", "d", "e", "_", "m", "o", "d", "u", "l", "e", "s" >>

\* The lines of .gitignore before a pull.
GitignoreSeeds ==
  { << >>,
    << S_node_modules >>,
    << S_dotenv_star >>,
    << << "/" >> \o F_development >>,
    << S_dotenv_star, << "!" >> \o F_development >> }

\* A project with any gitignore setting, env files, .gitignore and seeded
\* remote store.
PullInit ==
  /\ adapter \in Adapters
  /\ \E g \in CallerGitignores : config = Config(NoEnvironments, g)
  /\ environments = withDefaults(adapter, config.environments)
  /\ gitignoreEnsure = ensureWithDefault(config.gitignore)
  /\ \E st \in PullSeedStores : store = SeededStore(st)
  /\ envFiles \in SeedEnvFiles
  /\ gitignore \in GitignoreSeeds
  /\ CliIdle
  /\ HostIdle
  /\ NoCommand
  /\ pc = "idle"
  /\ store0 = store

PullNext ==
  \/ PullCmd
  \/ Again
  \/ ExecPull

PullSpec == PullInit /\ [][PullNext]_vars

\* ------------------------------------------------- configSchema

\* The most fields of a schema.
MaxFields == 2

\* `undefined` where a string is expected.
UndefinedString == << "<undefined>" >>

S_NEXT_PUBLIC_ == << "N", "E", "X", "T", "_", "P", "U", "B", "L", "I", "C", "_" >>

\* The values a flag may carry, undefined included, and the names of the
\* variable it is read from.
FlagValues ==
  { UndefinedString, << >>, << "t", "r", "u", "e" >>, << "T", "R", "U", "E" >>,
    << "Y", "e", "s" >>, << "1" >>, << "f", "a", "l", "s", "e" >>, << "0" >>,
    << "o", "n" >> }
FlagEnvs == { S_NEXT_PUBLIC_ \o << "O", "N" >>, << "O", "N" >> }

\* options.flag: left out, or given.
NoFlag == [given |-> FALSE, env |-> << >>, value |-> UndefinedString]
FlagOf(env, value) == [given |-> TRUE, env |-> env, value |-> value]

\* The field definitions server() and pub() make, with the default
\* schema z.string().
FieldDefs ==
  [type : { "server", "public" }, value : { UndefinedString, << >>, << "x" >> },
   isOptional : BOOLEAN]

\* isFlagEnabled
isFlagEnabled(flag) ==
  IF flag = UndefinedString \/ flag = << >> THEN FALSE
  ELSE toLowerCase(flag) \in { << "t", "r", "u", "e" >>, << "1" >>, << "y", "e", "s" >> }

\* z.string().safeParse(value).success
safeParse(value) == value # UndefinedString

\* What configSchema gives: the error it threw if any, isEnabled where
\* the result has it, and the fields whose schema was run.
SchemaResult(threw, isEnabled, validated) ==
  [threw |-> threw, isEnabled |-> isEnabled, validated |-> validated]

\* configSchema without constraints, on the client or on the server.
configSchema(fields, flag, isClient) ==
  LET hasPublicFields == \E i \in DOMAIN fields : fields[i].type = "public"
      parsed == { i \in DOMAIN fields :
                    /\ ~(fields[i].type = "server" /\ isClient)
                    /\ ~(fields[i].value = UndefinedString /\ fields[i].isOptional) }
      failing == { i \in parsed : ~safeParse(fields[i].value) }
      first == CHOOSE i \in failing : \A j \in failing : i <= j
  IN IF flag.given /\ hasPublicFields /\ ~startsWith(flag.env, S_NEXT_PUBLIC_)
     THEN SchemaResult("flag must use a NEXT_PUBLIC_* variable", "absent", { })
     ELSE IF flag.given /\ ~isFlagEnabled(flag.value)
     THEN SchemaResult("none", "false", { })
     ELSE IF failing # { }
     THEN SchemaResult("must be defined", "absent", { i \in parsed : i <= first })
     ELSE SchemaResult("none", IF flag.given THEN "true" ELSE "absent", parsed)

\* configSchema is about to be called.
SchemaInit ==
  /\ adapter = "vercel"
  /\ config = Config(NoEnvironments, NoGitignore)
  /\ environments = withDefaults(adapter, config.environments)
  /\ gitignoreEnsure = ensureWithDefault(config.gitignore)
  /\ store = [t \in Targets |-> EmptyStore]
  /\ envFiles = [f \in EnvFileNames |-> NoFile]
  /\ gitignore = << >>
  /\ CliIdle
  /\ process = Running
  /\ invocations = << >>
  /\ child = NoChild
  /\ markers = { }
  /\ configFile = ConfigFileOf(adapter)
  /\ terminal = << >>
  /\ \E fields \in SeqsUpTo(FieldDefs, MaxFields),
        flag \in { NoFlag } \cup { FlagOf(e, v) : e \in FlagEnvs, v \in FlagValues },
        isClient \in BOOLEAN :
       fnArgs = [fields |-> fields, flag |-> flag, isClient |-> isClient]
  /\ returned = [by |-> "none"]
  /\ NoCommand
  /\ pc = "schema"
  /\ store0 = store

CallConfigSchema ==
  /\ pc = "schema"
  /\ returned' = [by |-> "configSchema",
                  val |-> configSchema(fnArgs.fields, fnArgs.flag, fnArgs.isClient)]
  /\ pc' = "returned"
  /\ libFrame

SchemaSpec == SchemaInit /\ [][CallConfigSchema]_vars

\* ------------------------------------------------- Fly, one secret set

\* The logical environments the Fly adapter maps to its one secret set.
FlyNames == { "development", "preview", "production" }
FlyKeys == { K_A, K_KEY }

\* A Fly project with its default environments and no secret.
FlyInit ==
  /\ adapter = "fly"
  /\ config = Config(NoEnvironments, NoGitignore)
  /\ environments = withDefaults(adapter, config.environments)
  /\ gitignoreEnsure = ensureWithDefault(config.gitignore)
  /\ store = [t \in Targets |-> EmptyStore]
  /\ envFiles = [f \in EnvFileNames |-> NoFile]
  /\ gitignore = << >>
  /\ CliIdle
  /\ HostIdle
  /\ NoCommand
  /\ pc = "idle"
  /\ store0 = store

FlyMutateCmd ==
  /\ pc = "idle"
  /\ \E m \in { "add", "upsert", "update" }, n \in FlyNames, k \in FlyKeys,
        v \in Values : addEnvVar(m, n, k, v)

FlyDeleteCmd ==
  /\ pc = "idle"
  /\ \E n \in FlyNames, k \in FlyKeys : deleteEnvVar(n, k)

\* The command has ended and the user goes on to type a second one; how
\* the first ended is kept in `invocations`.
Then ==
  /\ pc = "done"
  /\ invocations = << >>
  /\ invocations' = << [cmd |-> cmd, result |-> result] >>
  /\ pc' = "idle"
  /\ UNCHANGED << configVars, cliVars, process, child, markers, configFile,
                  terminal, fnArgs, returned, store, envFiles, gitignore, ncmds,
                  cmd, plan, existingKeys, entries, calls, adapterCalls, result,
                  store0 >>

FlyNext ==
  \/ FlyMutateCmd
  \/ FlyDeleteCmd
  \/ Then
  \/ ExecExists
  \/ ExecSet
  \/ ExecUnset

FlySpec == FlyInit /\ [][FlyNext]_vars

\* ------------------------------------------------- .env.local

F_local == << ".", "e", "n", "v", ".", "l", "o", "c", "a", "l" >>

\* A better-env.ts that leaves `environments` out, or one whose
\* development environment has .env.local for its env file.
LocalEnvironments ==
  { NoEnvironments,
    Environments([n \in { "development" } |-> Entry(F_local, "development")]) }

\* A project with such a better-env.ts, no env file and some remote
\* variables.
LocalInit ==
  /\ adapter \in Adapters
  /\ \E e \in LocalEnvironments : config = Config(e, NoGitignore)
  /\ environments = withDefaults(adapter, config.environments)
  /\ gitignoreEnsure = ensureWithDefault(config.gitignore)
  /\ store = SeededStore([k \in Keys |-> IF k = K_A THEN V_1 ELSE Absent])
  /\ envFiles = [f \in EnvFileNames \cup { F_local } |-> NoFile]
  /\ gitignore = << >>
  /\ CliIdle
  /\ HostIdle
  /\ NoCommand
  /\ pc = "idle"
  /\ store0 = store

LocalSpec == LocalInit /\ [][Next]_vars

\* ------------------------------------------------- the command line

\* Tokens of a command line.
T_load == << "l", "o", "a", "d" >>
T_mode == << "-", "-", "m", "o", "d", "e" >>
T_mode_eq == << "-", "-", "m", "o", "d", "e", "=" >>
T_environment == << "-", "-", "e", "n", "v", "i", "r", "o", "n", "m", "e", "n", "t" >>
T_environment_eq == << "-", "-", "e", "n", "v", "i", "r", "o", "n", "m", "e", "n", "t", "=" >>
T_e == << "-", "e" >>
T_add_flag == << "-", "-", "a", "d", "d" >>
T_update_flag == << "-", "-", "u", "p", "d", "a", "t", "e" >>
T_upsert_flag == << "-", "-", "u", "p", "s", "e", "r", "t" >>
T_replace_flag == << "-", "-", "r", "e", "p", "l", "a", "c", "e" >>
T_add == << "a", "d", "d" >>
T_update == << "u", "p", "d", "a", "t", "e" >>
T_upsert == << "u", "p", "s", "e", "r", "t" >>
T_replace == << "r", "e", "p", "l", "a", "c", "e" >>
T_bogus == << "b", "o", "g", "u", "s" >>
T_production == << "p", "r", "o", "d", "u", "c", "t", "i", "o", "n" >>
T_file == S_dotenv

\* The environment name a token stands for: `production`, or a name the
\* default maps do not know.
nameOf(value) == IF value = T_production THEN "production" ELSE "staging"

\* The load mode a text names, if any.
loadModeOf(value) ==
  CASE value = T_add -> Some("add")
    [] value = T_update -> Some("update")
    [] value = T_upsert -> Some("upsert")
    [] value = T_replace -> Some("replace")
    [] OTHER -> JsNull

\* isNonEmptyString(argv[i + 1])
hasValue(args, i) == i + 1 <= Len(args) /\ args[i + 1] # << >>

\* A parser that keeps the first mode an option names.
modeAfter_Mut(mode, token) ==
  IF mode # "upsert" THEN mode
  ELSE IF token = T_add_flag THEN "add"
  ELSE IF token = T_update_flag THEN "update"
  ELSE IF token = T_upsert_flag THEN "upsert"
  ELSE IF token = T_replace_flag THEN "replace"
  ELSE IF startsWith(token, T_mode_eq)
  THEN LET value == loadModeOf(SubSeq(token, Len(T_mode_eq) + 1, Len(token)))
       IN IF value.isNull THEN mode ELSE value.val
  ELSE mode

\* parseFlags: `mode` after a token that is a mode option (--add,
\* --update, --upsert, --replace, --mode=<value>); a --mode=<value> with
\* another value than the four modes assigns nothing.
modeAfter(mode, token) ==
  IF token = T_add_flag THEN "add"
  ELSE IF token = T_update_flag THEN "update"
  ELSE IF token = T_upsert_flag THEN "upsert"
  ELSE IF token = T_replace_flag THEN "replace"
  ELSE IF startsWith(token, T_mode_eq)
  THEN LET value == loadModeOf(SubSeq(token, Len(T_mode_eq) + 1, Len(token)))
       IN IF value.isNull THEN mode ELSE value.val
  ELSE mode

\* The tokens parseFlags takes for a mode option.
isModeOption(token) ==
  \/ token \in { T_add_flag, T_update_flag, T_upsert_flag, T_replace_flag }
  \/ startsWith(token, T_mode_eq)

\* The most options after `load <file>`.
MaxArgs == 3

\* Tokens that may follow `load <file>`.
OptionTokens ==
  { T_add_flag, T_update_flag, T_upsert_flag, T_replace_flag, T_mode, T_e, T_production }
  \cup { T_mode_eq \o v : v \in { T_add, T_update, T_upsert, T_replace, T_bogus } }
  \cup { T_add, T_update, T_upsert, T_replace }

\* The command lines: `load` alone, and `load <file>` with options.
Argvs ==
  { << T_load >> } \cup { << T_load, T_file >> \o o : o \in SeqsUpTo(OptionTokens, MaxArgs) }

\* The text of the file `load` is given.
LoadFile == joinLines(<< K_A \o << "=" >> \o V_2 >>)

\* `better-env <argv>` starts in a project of the Vercel or the Fly
\* adapter whose remote holds KEY, with or without A.
ArgvInit ==
  /\ adapter \in { "vercel", "fly" }
  /\ config = Config(NoEnvironments, NoGitignore)
  /\ environments = withDefaults(adapter, config.environments)
  /\ gitignoreEnsure = ensureWithDefault(config.gitignore)
  /\ \E a \in { V_1, Absent } :
       store = SeededStore([k \in Keys |-> IF k = K_KEY THEN V_1
                                            ELSE IF k = K_A THEN a ELSE Absent])
  /\ envFiles = [f \in EnvFileNames |-> NoFile]
  /\ gitignore = << >>
  /\ argv \in Argvs
  /\ tokenIndex = 1
  /\ positionals = << >>
  /\ flags = NoFlags
  /\ HostIdle
  /\ NoCommand
  /\ pc = "argv"
  /\ store0 = store

\* parseFlags, one turn of its loop (--help, --list, --sensitive and
\* --cwd set flags no command here reads and are left out, and --yes is
\* read by init alone, which starts with the flag parsed): a token
\* without a leading "-" is a positional; --environment=<v>, and
\* --environment or -e with a next token, set the environment; a mode
\* option sets the mode; any other token is pushed as a positional.
parseFlags ==
  /\ pc = "argv"
  /\ tokenIndex <= Len(argv)
  /\ LET token == argv[tokenIndex]
     IN IF token = << >>
        THEN /\ tokenIndex' = tokenIndex + 1
             /\ UNCHANGED << positionals, flags >>
        ELSE IF ~startsWith(token, << "-" >>)
        THEN /\ positionals' = Append(positionals, token)
             /\ tokenIndex' = tokenIndex + 1
             /\ UNCHANGED flags
        ELSE IF startsWith(token, T_environment_eq)
        THEN /\ flags' = [flags EXCEPT !.environment =
                            nameOf(SubSeq(token, Len(T_environment_eq) + 1, Len(token)))]
             /\ tokenIndex' = tokenIndex + 1
             /\ UNCHANGED positionals
        ELSE IF token = T_environment \/ token = T_e
        THEN IF hasValue(argv, tokenIndex)
             THEN /\ flags' = [flags EXCEPT !.environment = nameOf(argv[tokenIndex + 1])]
                  /\ tokenIndex' = tokenIndex + 2
                  /\ UNCHANGED positionals
             ELSE /\ tokenIndex' = tokenIndex + 1
                  /\ UNCHANGED << positionals, flags >>
        ELSE IF isModeOption(token)
        THEN /\ flags' = [flags EXCEPT !.mode = modeAfter(flags.mode, token)]
             /\ tokenIndex' = tokenIndex + 1
             /\ UNCHANGED positionals
        ELSE /\ positionals' = Append(positionals, token)
             /\ tokenIndex' = tokenIndex + 1
             /\ UNCHANGED flags
  /\ UNCHANGED << configVars, hostVars, argv, store, envFiles, gitignore, ncmds, cmd, pc,
                  plan, existingKeys, entries, calls, adapterCalls, result, store0 >>

\* parseCliArgs returns and runCli dispatches `load`: the first
\* positional is the command, the next one the file; the load runs with
\* the flags parsed.
RunLoad ==
  /\ pc = "argv"
  /\ tokenIndex > Len(argv)
  /\ positionals # << >>
  /\ positionals[1] = T_load
  /\ LET rest == Tail(positionals)
     IN IF rest = << >>
        THEN /\ Begin(Cmd("load", flags.environment, NoKey, NoValue, flags.mode, << >>))
             /\ plan' = << >>
             /\ adapterCalls' = << >>
             /\ entries' = << >>
             /\ Finish("missing-arguments")
             /\ UNCHANGED << store, envFiles, gitignore >>
        ELSE loadEnvFileToRemote(flags.environment, LoadFile, flags.mode)

ArgvNext ==
  \/ parseFlags
  \/ RunLoad
  \/ ExecListEnvVars
  \/ ExecExists
  \/ ExecSet
  \/ ExecUnset

ArgvSpec == ArgvInit /\ [][ArgvNext]_vars

\* ------------------------------------------------ .gitignore, as a text

\* String.prototype.endsWith
endsWith(s, p) == Len(s) >= Len(p) /\ SubSeq(s, Len(s) - Len(p) + 1, Len(s)) = p

\* existing.split(/\r?\n/): the pieces between line feeds, without the
\* carriage return that stands before a line feed.
splitLines(content) ==
  LET pieces == split(content)
  IN [i \in DOMAIN pieces |->
        IF i < Len(pieces) /\ endsWith(pieces[i], << "\r" >>)
        THEN SubSeq(pieces[i], 1, Len(pieces[i]) - 1)
        ELSE pieces[i]]

\* p.replaceAll("\\", "/")
replaceBackslashes(p) == [i \in DOMAIN p |-> IF p[i] = "\\" THEN "/" ELSE p[i]]

\* path.basename of a path that does not end in "/".
basename(p) == SubSeq(p, lastIndexOf(p, "/") + 1, Len(p))

\* normalizeGitignorePath: the basename of an absolute path, else the
\* path with "/" for every backslash.
normalizeGitignorePath(p) ==
  IF startsWith(p, << "/" >>) THEN basename(p) ELSE replaceBackslashes(p)

\* dedupe: the first occurrence of every item, in order.
RECURSIVE dedupe(_)
dedupe(items) ==
  IF items = << >> THEN << >>
  ELSE LET before == dedupe(SubSeq(items, 1, Len(items) - 1))
           item == items[Len(items)]
       IN IF item \in Range(before) THEN before ELSE Append(before, item)

\* [header, ...items].join("\n")
RECURSIVE joinWithLineFeeds(_)
joinWithLineFeeds(items) ==
  IF Len(items) = 1 THEN items[1]
  ELSE items[1] \o << "\n" >> \o joinWithLineFeeds(Tail(items))

\* appendGitignore
appendGitignore(existing, additions) ==
  LET hasTrailingNewline == endsWith(existing, << "\n" >>) \/ Len(existing) = 0
      prefix == IF hasTrailingNewline THEN existing ELSE existing \o << "\n" >>
      block == joinWithLineFeeds(<< GitignoreHeader >> \o dedupe(additions))
      separator == IF endsWith(prefix, << "\n", "\n" >>) THEN << >> ELSE << "\n" >>
  IN IF Len(prefix) = 0 THEN block \o << "\n" >>
     ELSE prefix \o separator \o block \o << "\n" >>

\* The loop of ensureGitIgnored: the normalized paths the lines do not
\* cover.
additionsOf(trimmed, paths) ==
  SelectSeq([i \in DOMAIN paths |-> normalizeGitignorePath(paths[i])],
            LAMBDA rel : ~isCoveredByGitignore(trimmed, rel))

\* ensureGitIgnored on the text of .gitignore (Absent: there is no such
\* file) for a list of paths: what it returns as `changed`, the file
\* after it, and how often it wrote the file.
ensureGitIgnoredPaths(file, paths) ==
  LET existing == IF file = Absent THEN << >> ELSE file
      lines == splitLines(existing)
      trimmed == { trim(lines[i]) : i \in DOMAIN lines } \ { << >> }
      additions == additionsOf(trimmed, paths)
  IN IF Len(additions) = 0 THEN [changed |-> FALSE, file |-> file, writes |-> 0]
     ELSE [changed |-> TRUE, file |-> appendGitignore(existing, additions),
           writes |-> 1]

\* The most paths of one call.
MaxPaths == 2

\* Paths a caller may pass: relative, absolute, with a backslash, and
\* with a blank before or after the name.
P_absolute == << "/", "p", "/" >> \o S_dotenv
P_windows == << "a", "\\", "b" >>
P_leading_blank == << " " >> \o S_dotenv
P_trailing_blank == << "x", " " >>
GitignorePaths ==
  { S_dotenv, F_development, P_absolute, P_windows, P_leading_blank, P_trailing_blank }

\* The .gitignore before the call: none, empty, with and without a final
\* line feed, with an empty last line, with CRLF line ends, and with
\* lines that cover the env files.
GitignoreTexts ==
  { Absent, << >>, S_node_modules, S_node_modules \o << "\n" >>,
    S_node_modules \o << "\n", "\n" >>, S_node_modules \o << "\r", "\n" >>,
    S_dotenv_star \o << "\n" >>, << "/" >> \o S_dotenv \o << "\r", "\n" >> \o << "a", "/", "b" >> }

EnsureInit ==
  /\ adapter = "vercel"
  /\ config = Config(NoEnvironments, NoGitignore)
  /\ environments = withDefaults(adapter, config.environments)
  /\ gitignoreEnsure = ensureWithDefault(config.gitignore)
  /\ store = [t \in Targets |-> EmptyStore]
  /\ envFiles = [f \in EnvFileNames |-> NoFile]
  /\ gitignore = << >>
  /\ CliIdle
  /\ process = Running
  /\ invocations = << >>
  /\ child = NoChild
  /\ markers = { }
  /\ configFile = ConfigFileOf(adapter)
  /\ terminal = << >>
  /\ \E file \in GitignoreTexts, paths \in SeqsUpTo(GitignorePaths, MaxPaths) :
       fnArgs = [file |-> file, paths |-> paths]
  /\ returned = << >>
  /\ NoCommand
  /\ pc = "ensure"
  /\ store0 = store

\* ensureGitIgnored is called, and called again with the same paths on
\* the file the call before left.
CallEnsureGitIgnored ==
  /\ pc = "ensure"
  /\ Len(returned) < 2
  /\ returned' = Append(returned,
                        ensureGitIgnoredPaths(IF returned = << >> THEN fnArgs.file
                                              ELSE returned[Len(returned)].file,
                                              fnArgs.paths))
  /\ pc' = "ensure"
  /\ libFrame

EnsureSpec == EnsureInit /\ [][CallEnsureGitIgnored]_vars

\* ------------------------------------------------------------ findUp

\* The deepest directory below the root.
MaxDepth == 3

\* The names loadBetterEnvConfig looks for, in its order.
ConfigFileNames == << "better-env.ts", "better-env.js" >>

\* Directories are the sequences of their segments; << >> is the root.
\* The directories here: a chain /a, /a/a, ... and one beside it, /b.
RECURSIVE Chain(_)
Chain(n) == IF n = 0 THEN << >> ELSE Append(Chain(n - 1), "a")
Directories == { Chain(n) : n \in 0..MaxDepth } \cup { << "b" >> }

\* A dirname that stays where it is.
dirname_Mut(dir) == dir

\* path.dirname of an absolute directory: the root is its own parent.
dirname(dir) == IF dir = << >> THEN << >> ELSE SubSeq(dir, 1, Len(dir) - 1)

\* path.join(current, fileName)
pathJoin(dir, fileName) == [dir |-> dir, name |-> fileName]

\* findUp starts in any directory of a file system in which any
\* directory may hold any of the two files.
FindUpInit ==
  /\ adapter = "vercel"
  /\ config = Config(NoEnvironments, NoGitignore)
  /\ environments = withDefaults(adapter, config.environments)
  /\ gitignoreEnsure = ensureWithDefault(config.gitignore)
  /\ store = [t \in Targets |-> EmptyStore]
  /\ envFiles = [f \in EnvFileNames |-> NoFile]
  /\ gitignore = << >>
  /\ CliIdle
  /\ process = Running
  /\ invocations = << >>
  /\ child = NoChild
  /\ markers = { }
  /\ configFile = ConfigFileOf(adapter)
  /\ terminal = << >>
  /\ \E startDir \in Directories,
        files \in [Directories -> SUBSET Range(ConfigFileNames)] :
       /\ fnArgs = [startDir |-> startDir, files |-> files]
       /\ returned = [current |-> startDir, value |-> JsNull]
  /\ NoCommand
  /\ pc = "findUp"
  /\ store0 = store

\* One turn of the loop of findUp: the first of the file names that
\* exists in `current` is returned; else the loop goes on in the parent,
\* and returns null when the parent is `current` itself.
findUp ==
  /\ pc = "findUp"
  /\ LET current == returned.current
         found == { i \in DOMAIN ConfigFileNames :
                      ConfigFileNames[i] \in fnArgs.files[current] }
         parent == dirname(current)
     IN IF found # { }
        THEN /\ returned' =
                  [returned EXCEPT !.value =
                     Some(pathJoin(current,
                                   ConfigFileNames[CHOOSE i \in found :
                                                     \A j \in found : i <= j]))]
             /\ pc' = "returned"
        ELSE IF parent = current
        THEN /\ returned' = [returned EXCEPT !.value = JsNull]
             /\ pc' = "returned"
        ELSE /\ returned' = [returned EXCEPT !.current = parent]
             /\ pc' = "findUp"
  /\ libFrame

\* The loop runs on as long as it can.
FindUpSpec == FindUpInit /\ [][findUp]_vars /\ WF_vars(findUp)

\* ------------------------------------------- Convex, remote identifiers

\* A Convex project whose better-env.ts maps development and preview to
\* any remote, development and production or not, with a variable in the
\* development deployment.
ConvexRemoteInit ==
  /\ adapter = "convex"
  /\ \E e \in CallerEnvironments : config = Config(e, NoGitignore)
  /\ environments = withDefaults(adapter, config.environments)
  /\ gitignoreEnsure = ensureWithDefault(config.gitignore)
  /\ store = [t \in Targets |->
                IF t = "development"
                THEN [k \in Keys |-> IF k = K_A THEN V_1 ELSE Absent]
                ELSE EmptyStore]
  /\ envFiles = [f \in EnvFileNames \cup { S_dotenv } |-> NoFile]
  /\ gitignore = << >>
  /\ CliIdle
  /\ HostIdle
  /\ NoCommand
  /\ pc = "idle"
  /\ store0 = store

ConvexRemoteSpec == ConvexRemoteInit /\ [][Next]_vars

\* ------------------------------------------- two listings at a time

\* What a JSON listing subprocess may print: an array of one record, an
\* array of two, or no JSON at all.
ListingStdouts ==
  { JsonArrayText(<< [name |-> K_A, value |-> V_1] >>),
    JsonArrayText(<< [name |-> K_A, value |-> V_1], [name |-> K_KEY, value |-> V_2] >>),
    << "E", "r", "r", "o", "r" >> }

\* What a subprocess ends with: its exit code and its output.
Attempts == [exitCode : ExitCodes, stdout : ListingStdouts]

\* What the plain listing of Railway ends with: its exit code and lines.
PlainAttempts == [exitCode : ExitCodes, stdout : { << >>, << K_A \o << "=" >> \o V_1 >> }]

\* An `await` that hands on the results in the order the subprocesses
\* closed.
PromiseAll_Mut(attempts, closed) == [i \in DOMAIN closed |-> attempts[closed[i]]]

\* await Promise.all([...]): the results in the order of the commands,
\* whatever the order `closed` in which the subprocesses ended.
PromiseAll(attempts, closed) == [i \in DOMAIN attempts |-> attempts[i]]

\* The parser of the adapter on the output of a JSON listing.
parseListing(a, stdout) ==
  IF a = "cloudflare" THEN tryParseWranglerSecretList(stdout)
  ELSE parseRailwayStdout(stdout)

\* The loop over the results: the first one that exited 0 and parses, or
\* null.
RECURSIVE firstUsable(_, _)
firstUsable(a, results) ==
  IF results = << >> THEN JsNull
  ELSE IF Head(results).exitCode # 0 THEN firstUsable(a, Tail(results))
  ELSE IF ~parseListing(a, Head(results).stdout).isNull
  THEN parseListing(a, Head(results).stdout)
  ELSE firstUsable(a, Tail(results))

\* A listing has started its two JSON subprocesses; none has ended.
RaceInit ==
  /\ adapter \in { "cloudflare", "railway" }
  /\ config = Config(NoEnvironments, NoGitignore)
  /\ environments = withDefaults(adapter, config.environments)
  /\ gitignoreEnsure = ensureWithDefault(config.gitignore)
  /\ store = [t \in Targets |-> EmptyStore]
  /\ envFiles = [f \in EnvFileNames |-> NoFile]
  /\ gitignore = << >>
  /\ CliIdle
  /\ process = Running
  /\ invocations = << >>
  /\ child = NoChild
  /\ markers = { }
  /\ configFile = ConfigFileOf(adapter)
  /\ terminal = << >>
  /\ \E first \in Attempts, second \in Attempts, plain \in PlainAttempts :
       fnArgs = [attempts |-> << first, second >>, plain |-> plain]
  /\ returned = [closed |-> << >>, threw |-> FALSE, val |-> << >>]
  /\ NoCommand
  /\ pc = "listing"
  /\ store0 = store

\* One of the two subprocesses ends.
ListingCloses ==
  /\ pc = "listing"
  /\ \E i \in DOMAIN fnArgs.attempts :
       /\ i \notin Range(returned.closed)
       /\ returned' = [returned EXCEPT !.closed = Append(@, i)]
  /\ pc' = "listing"
  /\ libFrame

\* Both have ended: Promise.all resolves and the results are examined.
\* The first usable one is returned; without one listKeys of Cloudflare
\* throws and listVariables of Railway starts its plain listing.
ListingsSettled ==
  /\ pc = "listing"
  /\ Len(returned.closed) = Len(fnArgs.attempts)
  /\ LET found == firstUsable(adapter, PromiseAll(fnArgs.attempts, returned.closed))
     IN IF ~found.isNull
        THEN returned' = [returned EXCEPT !.val = found.val] /\ pc' = "returned"
        ELSE IF adapter = "cloudflare"
        THEN returned' = [returned EXCEPT !.threw = TRUE] /\ pc' = "returned"
        ELSE UNCHANGED returned /\ pc' = "plain"
  /\ libFrame

\* The plain listing of Railway ends: its variables, or the throw.
PlainListingCloses ==
  /\ pc = "plain"
  /\ returned' = IF fnArgs.plain.exitCode = 0
                 THEN [returned EXCEPT !.val = parseRailwayPlainVariables(fnArgs.plain.stdout)]
                 ELSE [returned EXCEPT !.threw = TRUE]
  /\ pc' = "returned"
  /\ libFrame

RaceNext ==
  \/ ListingCloses
  \/ ListingsSettled
  \/ PlainListingCloses

RaceSpec == RaceInit /\ [][RaceNext]_vars

\* ------------------------------------------------------------ --sensitive

T_sensitive == << "-", "-", "s", "e", "n", "s", "i", "t", "i", "v", "e" >>
T_secret == << "-", "-", "s", "e", "c", "r", "e", "t" >>
T_force == << "-", "-", "f", "o", "r", "c", "e" >>

\* The flags parseFlags starts with, `sensitive` among them.
NoSetFlags ==
  [positionals |-> << >>, environment |-> Undefined, mode |-> "upsert",
   sensitive |-> FALSE]

\* parseFlags from token `i` on, with the flags that reach the set
\* commands: --sensitive sets `sensitive`; --environment=<v>, and
\* --environment or -e with a next token, set the environment and the
\* latter skip that token; a mode option sets the mode; any other token
\* is a positional.
RECURSIVE parseSetFlags(_, _, _)
parseSetFlags(args, i, acc) ==
  IF i > Len(args) THEN acc
  ELSE LET token == args[i]
       IN IF token = << >> THEN parseSetFlags(args, i + 1, acc)
          ELSE IF ~startsWith(token, << "-" >>)
          THEN parseSetFlags(args, i + 1,
                             [acc EXCEPT !.positionals = Append(@, token)])
          ELSE IF token = T_sensitive
          THEN parseSetFlags(args, i + 1, [acc EXCEPT !.sensitive = TRUE])
          ELSE IF startsWith(token, T_environment_eq)
          THEN parseSetFlags(args, i + 1,
                 [acc EXCEPT !.environment =
                    nameOf(SubSeq(token, Len(T_environment_eq) + 1, Len(token)))])
          ELSE IF token = T_environment \/ token = T_e
          THEN IF hasValue(args, i)
               THEN parseSetFlags(args, i + 2,
                                  [acc EXCEPT !.environment = nameOf(args[i + 1])])
               ELSE parseSetFlags(args, i + 1, acc)
          ELSE IF isModeOption(token)
          THEN parseSetFlags(args, i + 1,
                             [acc EXCEPT !.mode = modeAfter(acc.mode, token)])
          ELSE parseSetFlags(args, i + 1,
                             [acc EXCEPT !.positionals = Append(@, token)])

\* A provider command line: the subcommand, the key and the environment
\* it names, its option tokens, and the value given as an argument or on
\* stdin.
SetCommand(verb, key, environment, options, value) ==
  [verb |-> verb, key |-> key, environment |-> environment, options |-> options,
   value |-> value]

\* The listing an existence check runs.
ListCommand(verb, environment) == SetCommand(verb, NoKey, environment, << >>, NoValue)

\* A Vercel upsert that never marks the variable sensitive.
vercelUpsert_Mut(environment, key, value, sensitive) ==
  SetCommand("env add", key, environment, << T_force >>, value)

\* vercelAdapter.add: env add <key> <environment> [--sensitive]
vercelAdd(environment, key, value, sensitive) ==
  SetCommand("env add", key, environment,
             IF sensitive THEN << T_sensitive >> ELSE << >>, value)

\* vercelAdapter.upsert: env add <key> <environment> --force [--sensitive]
vercelUpsert(environment, key, value, sensitive) ==
  SetCommand("env add", key, environment,
             << T_force >> \o (IF sensitive THEN << T_sensitive >> ELSE << >>), value)

\* netlifyAdapter.add and upsert: env:set <key> <value> --context
\* <environment> [--secret]
netlifySet(environment, key, value, sensitive) ==
  SetCommand("env:set", key, environment,
             IF sensitive THEN << T_secret >> ELSE << >>, value)

\* One adapter operation on a remote that holds the keys `existing`: the
\* commands it runs, and whether it threw. add checks for the key on
\* Netlify alone; update checks on both and then calls upsert.
adapterSet(a, mode, existing, environment, key, value, sensitive) ==
  LET list == ListCommand(IF a = "vercel" THEN "env ls" ELSE "env:list", environment)
      upsert == IF a = "vercel" THEN vercelUpsert(environment, key, value, sensitive)
                ELSE netlifySet(environment, key, value, sensitive)
  IN CASE mode = "add" /\ a = "vercel" ->
            [commands |-> << vercelAdd(environment, key, value, sensitive) >>,
             threw |-> key \in existing]
       [] mode = "add" /\ a # "vercel" ->
            IF key \in existing THEN [commands |-> << list >>, threw |-> TRUE]
            ELSE [commands |-> << list, netlifySet(environment, key, value, sensitive) >>,
                  threw |-> FALSE]
       [] mode = "update" ->
            IF key \notin existing THEN [commands |-> << list >>, threw |-> TRUE]
            ELSE [commands |-> << list, upsert >>, threw |-> FALSE]
       [] OTHER -> [commands |-> << upsert >>, threw |-> FALSE]

\* The second loop of loadEnvFileToRemote with its `sensitive`: an
\* operation an entry, until one throws.
RECURSIVE loadSet(_, _, _, _, _, _)
loadSet(a, mode, existing, environment, ents, sensitive) ==
  IF ents = << >> THEN << >>
  ELSE LET first == adapterSet(a, mode, existing, environment, ents[1].key,
                               ents[1].value, sensitive)
       IN IF first.threw THEN first.commands
          ELSE first.commands
                 \o loadSet(a, mode, existing \cup { ents[1].key }, environment,
                            Tail(ents), sensitive)

\* The file `load` is given here: two assignments.
SetLoadFile == joinLines(<< K_A \o << "=" >> \o V_2, K_KEY \o << "=" >> \o V_1 >>)

\* runCli for add, upsert, update and load from the parsed command line
\* to the provider commands: the first positional is the command; add,
\* upsert and update need a key and a value and load a file; the
\* environment must be mapped to a remote.
runSet(a, existing, args) ==
  LET parsed == parseSetFlags(args, 1, NoSetFlags)
      command == IF parsed.positionals = << >> THEN << >> ELSE parsed.positionals[1]
      rest == IF parsed.positionals = << >> THEN << >> ELSE Tail(parsed.positionals)
      envConfig == getEnvironmentConfig(withDefaults(a, NoEnvironments),
                                        resolveEnvironmentName(parsed.environment))
  IN IF command \in { T_add, T_upsert, T_update }
     THEN IF Len(rest) < 2 \/ rest[1] = << >> THEN << >>
          ELSE IF Unknown(envConfig) THEN << >>
          ELSE IF NoRemote(envConfig) THEN << >>
          ELSE adapterSet(a, IF command = T_add THEN "add"
                             ELSE IF command = T_update THEN "update" ELSE "upsert",
                          existing, envConfig.remote, rest[1], rest[2],
                          parsed.sensitive).commands
     ELSE IF command = T_load
     THEN IF rest = << >> THEN << >>
          ELSE IF Unknown(envConfig) THEN << >>
          ELSE IF NoRemote(envConfig) THEN << >>
          ELSE IF parsed.mode = "replace" THEN << >>
          ELSE loadSet(a, parsed.mode, existing, envConfig.remote,
                       parseDotenv(SetLoadFile), parsed.sensitive)
     ELSE << >>

\* Tokens that may follow the command and its arguments.
SetOptionTokens == { T_sensitive, T_e, T_production, T_add_flag, T_update_flag }

\* The command lines: add, upsert and update of A, and a load.
SetArgvs ==
  { head \o o :
      head \in { << T_add, K_A, V_2 >>, << T_upsert, K_A, V_2 >>,
                 << T_update, K_A, V_2 >>, << T_load, T_file >> },
      o \in SeqsUpTo(SetOptionTokens, MaxArgs) }

\* `better-env <argv>` in a Vercel or Netlify project whose remote holds
\* some of the keys.
SetInit ==
  /\ adapter \in { "vercel", "netlify" }
  /\ config = Config(NoEnvironments, NoGitignore)
  /\ environments = withDefaults(adapter, config.environments)
  /\ gitignoreEnsure = ensureWithDefault(config.gitignore)
  /\ store = [t \in Targets |-> EmptyStore]
  /\ envFiles = [f \in EnvFileNames |-> NoFile]
  /\ gitignore = << >>
  /\ CliIdle
  /\ process = Running
  /\ invocations = << >>
  /\ child = NoChild
  /\ markers = { }
  /\ configFile = ConfigFileOf(adapter)
  /\ terminal = << >>
  /\ \E args \in SetArgvs, existing \in SUBSET { K_A, K_KEY } :
       fnArgs = [argv |-> args, existing |-> existing]
  /\ returned = [by |-> "none"]
  /\ NoCommand
  /\ pc = "set"
  /\ store0 = store

RunSet ==
  /\ pc = "set"
  /\ returned' = [by |-> "runCli",
                  val |-> runSet(adapter, fnArgs.existing, fnArgs.argv)]
  /\ pc' = "returned"
  /\ libFrame

SetSpec == SetInit /\ [][RunSet]_vars

\* ------------------------------------------------------------ properties

\* The adapters the package ships.
ShippedAdapters == Adapters \ { "custom" }

\* A command has started on an environment that is mapped to a remote.
RemoteMapped ==
  /\ cmd.op # "none"
  /\ ~Unknown(CurEnvConfig)
  /\ ~NoRemote(CurEnvConfig)

\* The executor calls that write to the provider.
WriteCalls == SelectSeq(calls, LAMBDA c : c.op \in { "set", "add", "unset" })

\* A provider store after the write calls `cs` that exited 0.
RECURSIVE Replay(_, _)
Replay(st, cs) ==
  IF cs = << >> THEN st
  ELSE LET c == Head(cs)
       IN Replay(IF c.exit # 0 THEN st
                 ELSE IF c.op = "unset" THEN [st EXCEPT ![c.key] = Absent]
                 ELSE [st EXCEPT ![c.key] = c.value],
                 Tail(cs))

\* The store that holds exactly the entries of a parsed dotenv file.
StoreOf(ents) ==
  [k \in Keys |->
     IF objHasOwn(ents, k)
     THEN ents[CHOOSE i \in DOMAIN ents : ents[i].key = k].value
     ELSE Absent]

\* The adapter operations load has invoked, the listing aside.
Invoked == SelectSeq(adapterCalls, LAMBDA c : c.method # "listEnvVars")

\* The adapter operations a load makes when none fails.
LoadOps ==
  IF cmd.mode = "replace"
  THEN ReplaceOps(existingKeys, entries)
  ELSE ApplyOps(cmd.mode, entries)

InLoadReplace == cmd.op = "load" /\ cmd.mode = "replace"

\* C1: a command (pull, add, upsert, update, delete, load) on a configured
\* environment whose entry has remote = null has completed without any
\* executor call and without any adapter method call, and the remote
\* store is as it was.
C1_LocalOnlyNoCalls ==
  (/\ cmd.op # "none"
   /\ CurEnvironment \in DOMAIN environments
   /\ environments[CurEnvironment].remote = Null)
  => (/\ pc = "done"
      /\ result \in { "ok", "local-only" }
      /\ result = "ok" <=> cmd.op = "pull"
      /\ calls = << >>
      /\ adapterCalls = << >>
      /\ store = store0)

\* A load --replace of a file with entries on a local-only environment
\* has ended.
C1_Witness ==
  /\ InLoadReplace
  /\ cmd.file # << >>
  /\ CurEnvironment \in DOMAIN environments
  /\ environments[CurEnvironment].remote = Null
  /\ pc = "done"

\* C2: a command on a name that is no key of the environment map fails
\* with "Unknown environment" and makes no executor or adapter call; a
\* name that is a key resolves to that key's entry.
C2_UnknownEnvironmentFails ==
  cmd.op # "none" =>
    IF CurEnvironment \in DOMAIN environments
    THEN CurEnvConfig = environments[CurEnvironment]
    ELSE /\ pc = "done"
         /\ result = "unknown-environment"
         /\ calls = << >>
         /\ adapterCalls = << >>

\* C3: on every shipped adapter an add of a key that the remote store
\* holds fails and leaves the store as it was.
C3_AddExistingFails ==
  (/\ pc = "done"
   /\ cmd.op = "add"
   /\ adapter \in ShippedAdapters
   /\ RemoteMapped
   /\ store0[CurTarget][cmd.key] # Absent)
  => (result # "ok" /\ store = store0)

\* C4: on every shipped adapter an update of an absent key fails, with
\* "does not exist" when the listing worked, makes no set call and leaves
\* the store as it was; an update of a present key whose commands exit 0
\* overwrites the value.
C4_UpdateRequiresKey ==
  (/\ pc = "done"
   /\ cmd.op = "update"
   /\ adapter \in ShippedAdapters
   /\ RemoteMapped)
  => IF store0[CurTarget][cmd.key] = Absent
     THEN /\ result \in { "does-not-exist", "cli-failure" }
          /\ WriteCalls = << >>
          /\ store = store0
     ELSE (\A i \in DOMAIN calls : calls[i].exit = 0)
          => (/\ result = "ok"
              /\ store[CurTarget][cmd.key] = cmd.value)

\* C5: on every adapter an upsert makes one set call and no listing; it
\* succeeds exactly when that call exits 0, whether or not the key was
\* there, then the key has the value and nothing else changed; hence a
\* second identical upsert succeeds too and leaves the store as the first
\* one left it.
C5_UpsertIdempotent ==
  (pc = "done" /\ cmd.op = "upsert" /\ RemoteMapped)
  => (/\ Len(calls) = 1
      /\ calls[1].op = "set"
      /\ calls[1].key = cmd.key
      /\ result = (IF calls[1].exit = 0 THEN "ok" ELSE "cli-failure")
      /\ store[CurTarget] =
           (IF result = "ok"
            THEN [store0[CurTarget] EXCEPT ![cmd.key] = cmd.value]
            ELSE store0[CurTarget])
      /\ \A t \in Targets \ { CurTarget } : store[t] = store0[t]
      /\ (result = "ok" /\ store0[CurTarget][cmd.key] = cmd.value)
           => store = store0)

\* The second of two identical upserts has succeeded on a store that the
\* first one wrote (the seeded stores hold the first value only).
C5_Witness ==
  /\ pc = "done"
  /\ cmd.op = "upsert"
  /\ cmd.value = V_2
  /\ ncmds = 2
  /\ result = "ok"
  /\ store0[CurTarget][cmd.key] = V_2
  /\ store = store0

\* C6: on every shipped adapter a load --replace that succeeded leaves
\* the remote store with exactly the entries of the file.
C6_ReplaceLeavesFile ==
  (/\ pc = "done"
   /\ InLoadReplace
   /\ adapter \in ShippedAdapters
   /\ RemoteMapped
   /\ result = "ok")
  => store[CurTarget] = StoreOf(entries)

\* C7: in a load --replace the listing comes before every mutation and
\* every delete has been issued and has returned before the first upsert
\* is invoked.
C7_ListDeleteUpsertOrder ==
  InLoadReplace =>
    /\ \A i, j \in DOMAIN calls :
         i < j => /\ calls[j].op = "list" => calls[i].op = "list"
                  /\ calls[j].op = "unset" => calls[i].op = "unset" \/ calls[i].op = "list"
    /\ \A i, j \in DOMAIN adapterCalls :
         i < j => /\ adapterCalls[j].method # "listEnvVars"
                  /\ adapterCalls[j].method = "delete"
                       => adapterCalls[i].method \in { "listEnvVars", "delete" }
    /\ WriteCalls # << >> => adapterCalls[1].method = "listEnvVars"
    /\ (\E i \in DOMAIN adapterCalls : adapterCalls[i].method = "upsert")
         => /\ \A i \in DOMAIN plan : plan[i].method # "delete"
            /\ \A i \in DOMAIN adapterCalls :
                 adapterCalls[i].method = "delete"
                   => \E j \in DOMAIN calls :
                        /\ calls[j].op = "unset"
                        /\ calls[j].key = adapterCalls[i].key
                        /\ calls[j].exit = 0

\* A load --replace that deleted and upserted has succeeded.
C7_Witness ==
  /\ InLoadReplace
  /\ pc = "done"
  /\ result = "ok"
  /\ \E i \in DOMAIN calls : calls[i].op = "unset"
  /\ \E i \in DOMAIN calls : calls[i].op = "set"

\* C8: in a load --replace the keys deleted are keys the adapter's listing
\* returned that the file does not have, each at most once; no key is
\* both deleted and upserted; once the deletes are through, the keys
\* deleted are exactly (listing) minus (file keys).
C8_DeletedSet ==
  InLoadReplace =>
    LET fileKeys == Range(objKeys(entries))
        unsets == SelectSeq(calls, LAMBDA c : c.op = "unset")
        sets == SelectSeq(calls, LAMBDA c : c.op = "set")
        deleted == { unsets[i].key : i \in DOMAIN unsets }
    IN /\ deleted \subseteq Range(existingKeys) \ fileKeys
       /\ \A i, j \in DOMAIN unsets : unsets[i].key = unsets[j].key => i = j
       /\ \A i \in DOMAIN sets : sets[i].key \notin deleted
       /\ \A i \in DOMAIN sets : sets[i].key \in fileKeys
       /\ (sets # << >> \/ result = "ok")
            => deleted = Range(existingKeys) \ fileKeys

\* A load --replace has succeeded where the listing returned a key of the
\* file and a key the file does not have.
C8_Witness ==
  /\ InLoadReplace
  /\ pc = "done"
  /\ result = "ok"
  /\ \E k \in Range(existingKeys) : k \in Range(objKeys(entries))
  /\ \E k \in Range(existingKeys) : k \notin Range(objKeys(entries))

\* C9: a load --replace with an adapter that has no listEnvVars has
\* failed with "does not support replace", with no adapter call and no
\* executor call, and the store is as it was.
C9_ReplaceNeedsListing ==
  (InLoadReplace /\ adapter = "custom" /\ RemoteMapped)
  => (/\ pc = "done"
      /\ result = "replace-unsupported"
      /\ adapterCalls = << >>
      /\ calls = << >>
      /\ store = store0)

\* Such a load, of a file with entries onto a store with variables.
C9_Witness ==
  /\ InLoadReplace
  /\ adapter = "custom"
  /\ RemoteMapped
  /\ cmd.file # << >>
  /\ store[CurTarget] # EmptyStore
  /\ result = "replace-unsupported"

\* C10: a load, in any mode, that has failed made its adapter operations
\* in order up to the one that failed and none after it; every write
\* before the failing one exited 0, and the store is the starting store
\* with exactly those writes applied: nothing is rolled back.
C10_LoadHaltsNoRollback ==
  (/\ pc = "done"
   /\ cmd.op = "load"
   /\ RemoteMapped
   /\ result \in { "cli-failure", "already-exists", "does-not-exist" })
  => LET w == WriteCalls
         n == Len(Invoked)
     IN /\ n <= Len(LoadOps)
        /\ \A i \in 1..n :
             Op(Invoked[i].method, Invoked[i].key, Invoked[i].value) = LoadOps[i]
        /\ n > 0 => plan = SubSeq(LoadOps, n, Len(LoadOps))
        /\ Len(w) \in { n, n - 1 } \cap Nat
        /\ \A i \in DOMAIN w : w[i].key = Invoked[i].key
        /\ \A i \in DOMAIN w : (w[i].exit = 0) <=> (i < n)
        /\ store[CurTarget] = Replay(store0[CurTarget], w)
        /\ \A t \in Targets \ { CurTarget } : store[t] = store0[t]

\* A load has failed after a write that stays, with operations left over.
C10_Witness ==
  /\ pc = "done"
  /\ cmd.op = "load"
  /\ result = "cli-failure"
  /\ Len(plan) >= 2
  /\ Len(Invoked) >= 2
  /\ store # store0

\* The assignments of a dotenv file in the order in which their keys
\* first appear in the file, each key with the value of its last line.
RECURSIVE FileOrderEntries(_)
FileOrderEntries(lines) ==
  IF lines = << >> THEN << >>
  ELSE LET before == FileOrderEntries(SubSeq(lines, 1, Len(lines) - 1))
           trimmed == trim(lines[Len(lines)])
           match == lineRegex(trimmed)
           e == [key |-> match.val.key,
                 value |-> normalizeValue(trim(match.val.value))]
       IN IF Len(trimmed) = 0 \/ trimmed[1] = "#" \/ match.isNull THEN before
          ELSE IF \E i \in DOMAIN before : before[i].key = e.key
          THEN [i \in DOMAIN before |-> IF before[i].key = e.key THEN e ELSE before[i]]
          ELSE Append(before, e)

\* C11: a load in mode add, update or upsert that succeeded invoked the
\* adapter operation of its mode once for every entry of the file, in the
\* order in which the entries appear in the file, one after the other;
\* one that failed invoked a prefix of that sequence.
C11_ApplyInFileOrder ==
  (/\ pc = "done"
   /\ cmd.op = "load"
   /\ cmd.mode \in { "add", "update", "upsert" }
   /\ RemoteMapped)
  => LET expected == FileOrderEntries(split(normalizeNewlines(cmd.file)))
     IN /\ Len(adapterCalls) <= Len(expected)
        /\ result = "ok" => Len(adapterCalls) = Len(expected)
        /\ \A i \in DOMAIN adapterCalls :
             adapterCalls[i] =
               AdapterCall(cmd.mode, CurRemote, expected[i].key, expected[i].value)
        /\ Len(WriteCalls) <= Len(adapterCalls)

\* The local project is as it was before the first pull.
LocalStateSeeded == envFiles \in SeedEnvFiles /\ gitignore \in GitignoreSeeds

\* C12: with the Fly or the Cloudflare adapter a pull of any
\* remote-mapped environment ends at once with the capability-gap error
\* (which names the provider and recommends `better-env load`), whatever
\* the project holds: no executor call is made, and no env file and no
\* .gitignore is written.
C12_WriteOnlyPullFails ==
  (cmd.op = "pull" /\ adapter \in { "fly", "cloudflare" } /\ RemoteMapped) =>
    /\ pc = "done"
    /\ result = "capability-gap"
    /\ adapterCalls = << AdapterCall("pull", CurRemote, NoKey, NoValue) >>
    /\ calls = << >>
    /\ LocalStateSeeded

\* A Cloudflare pull has failed a second time in a project with old env
\* files, a seeded .gitignore and remote secrets.
C12_Witness ==
  /\ cmd.op = "pull"
  /\ adapter = "cloudflare"
  /\ RemoteMapped
  /\ ncmds = 2
  /\ result = "capability-gap"
  /\ envFiles[CurEnvConfig.envFile] = FileOf(OldContent)
  /\ gitignore = << S_node_modules >>
  /\ store[CurTarget][K_A] = V_1

\* C13: a command on a local-only environment (remote null) has ended as
\* soon as it has started: a pull has returned, reporting the env file of
\* the configuration, while add, upsert, update, delete and load have
\* raised the local-only (no remote mapping) error; no env file exists and
\* .gitignore is empty, as before the command.
C13_LocalOnlyPullReturns ==
  (cmd.op # "none" /\ ~Unknown(CurEnvConfig) /\ CurEnvConfig.remote = Null) =>
    /\ pc = "done"
    /\ cmd.op = "pull" => result = "ok" /\ CurEnvConfig.envFile \in EnvFileNames
    /\ cmd.op # "pull" => result = "local-only"
    /\ envFiles = [f \in EnvFileNames |-> NoFile]
    /\ gitignore = << >>

\* A pull of `test` has returned a second time, with variables in the
\* remote store of `development`.
C13_Witness ==
  /\ cmd.op = "pull"
  /\ cmd.environmentName = "test"
  /\ CurEnvConfig.remote = Null
  /\ CurEnvConfig.envFile = F_test
  /\ ncmds = 2
  /\ result = "ok"
  /\ \E t \in Targets : store[t][K_A] = V_1

C15_RemotesListed ==
  pc = "idle" =>
    \A n \in DOMAIN environments :
      LET entry == getEnvironmentConfig(environments, n)
      IN entry.remote = Null \/ entry.remote \in Range(listEnvironments(adapter))

\* C16: after a pull of a remote-mapped environment has succeeded with
\* gitignore.ensure on, git ignores the env file written, by the
\* .gitignore the pull leaves; with gitignore.ensure off .gitignore is as
\* it was.
C16_PulledFileIgnored ==
  /\ (cmd.op = "pull" /\ RemoteMapped /\ pc = "done" /\ result = "ok" /\ gitignoreEnsure)
       => gitIgnores(gitignore, CurEnvConfig.envFile)
  /\ ~gitignoreEnsure => gitignore \in GitignoreSeeds

\* The key-to-value pairs of a parsed object and of a provider store.
PairsOf(obj) == { << obj[i].key, obj[i].value >> : i \in DOMAIN obj }
StorePairs(st) == { << k, st[k] >> : k \in { x \in Keys : st[x] # Absent } }

\* C17: after a pull by an adapter that writes the env file itself has
\* succeeded, parseDotenv of the file gives the key-to-value pairs of the
\* remote variables, whatever characters the values hold.
C17_PullRoundTrip ==
  (/\ cmd.op = "pull"
   /\ adapter \in { "railway", "convex" }
   /\ RemoteMapped
   /\ pc = "done"
   /\ result = "ok")
  => PairsOf(parseDotenv(envFiles[CurEnvConfig.envFile].content)) = StorePairs(store[CurTarget])

\* The lines `KEY=value` of the variables of a provider store.
StoreLines(st) == { k \o << "=" >> \o st[k] : k \in { x \in Keys : st[x] # Absent } }

\* C18: after a pull has succeeded the env file holds the remote
\* variables and nothing else: a line for every remote variable with its
\* value, no line of the text the file had before, and no text at all
\* when the remote has no variable.
C18_PullOverwrites ==
  (cmd.op = "pull" /\ RemoteMapped /\ pc = "done" /\ result = "ok") =>
    LET file == envFiles[CurEnvConfig.envFile]
    IN /\ file.exists
       /\ Range(split(file.content)) \ { << >> } = StoreLines(store[CurTarget])
       /\ StoreLines(store[CurTarget]) = { } => file.content = << >>

\* The mode options of a command line, in order.
ModeOptions(args) == SelectSeq(args, isModeOption)

\* The mode the last option of a sequence of mode options names, from
\* `mode` on: an option that names no mode counts for nothing.
RECURSIVE LastMode(_, _)
LastMode(mode, options) ==
  IF options = << >> THEN mode
  ELSE LET last == options[Len(options)]
           named ==
             IF last = T_add_flag THEN Some("add")
             ELSE IF last = T_update_flag THEN Some("update")
             ELSE IF last = T_upsert_flag THEN Some("upsert")
             ELSE IF last = T_replace_flag THEN Some("replace")
             ELSE loadModeOf(SubSeq(last, Len(T_mode_eq) + 1, Len(last)))
       IN IF named.isNull THEN LastMode(mode, SubSeq(options, 1, Len(options) - 1))
          ELSE named.val

\* The load of the command line has started.
LoadStarted == cmd.op = "load" /\ cmd.file # << >>

\* C19: a load whose command line is `load <file> --mode M`, with M a
\* token of its own, or `load <file> --mode=M`, runs with mode M, for
\* each of the four modes; `load <file>` alone runs with mode upsert.
C19_ModeOptionForms ==
  LoadStarted =>
    /\ \A M \in { T_add, T_update, T_upsert, T_replace } :
         (\/ argv = << T_load, T_file, T_mode, M >>
          \/ argv = << T_load, T_file, T_mode_eq \o M >>)
         => Some(cmd.mode) = loadModeOf(M)
    /\ argv = << T_load, T_file >> => cmd.mode = "upsert"

C21_OperatesOnNamedEntry ==
  cmd.op # "none" =>
    LET name == IF cmd.environmentName = Undefined THEN "development"
                ELSE cmd.environmentName
    IN IF name \in DOMAIN environments
       THEN LET entry == environments[name]
            IN /\ \A i \in DOMAIN calls : calls[i].target = Target(adapter, entry.remote)
               /\ \A i \in DOMAIN adapterCalls : adapterCalls[i].environment = entry.remote
               /\ \A t \in Targets \ { Target(adapter, entry.remote) } : store[t] = store0[t]
               /\ \A f \in EnvFileNames \ { entry.envFile } : envFiles[f] = NoFile
       ELSE /\ calls = << >>
            /\ adapterCalls = << >>
            /\ store = store0
            /\ \A f \in EnvFileNames : envFiles[f] = NoFile

\* With the Netlify adapter an upsert without --environment has set the
\* key in the remote `dev`, the one of `development`.
C21_Witness ==
  /\ adapter = "netlify"
  /\ cmd.op = "upsert"
  /\ cmd.environmentName = Undefined
  /\ pc = "done"
  /\ result = "ok"
  /\ calls # << >>
  /\ calls[1].target = "dev"
  /\ store["dev"][cmd.key] = cmd.value
  /\ store0["dev"][cmd.key] # cmd.value

\* Every listing command of the run exited 0.
ListingsWorked == \A i \in DOMAIN calls : calls[i].op = "list" => calls[i].exit = 0

\* C22: on every shipped adapter an add of a key the remote holds ends
\* with the "already exists" error and an update of a key it lacks with
\* the "does not exist" error, each of which names the operation to use
\* and is another error than the failure of a provider command.
C22_PreconditionErrors ==
  (pc = "done" /\ adapter \in ShippedAdapters /\ RemoteMapped /\ ListingsWorked) =>
    /\ (cmd.op = "add" /\ store0[CurTarget][cmd.key] # Absent) => result = "already-exists"
    /\ (cmd.op = "update" /\ store0[CurTarget][cmd.key] = Absent) => result = "does-not-exist"

\* C23: a command has succeeded only if every provider subprocess its
\* adapter operations started exited 0: an operation raises as soon as
\* one of its subprocesses exits non-zero.
C23_NonZeroExitFatal ==
  (pc = "done" /\ result = "ok") => \A i \in DOMAIN calls : calls[i].exit = 0

\* C25: no provider subprocess is started while another one of the same
\* CLI process is running.
C25_OneSubprocessAtATime ==
  \A i \in DOMAIN calls : calls[i].alive = 0

\* A provider subprocess can still be started.
CanSpawn == ENABLED (ExecPull \/ ExecListEnvVars \/ ExecExists \/ ExecSet \/ ExecUnset)

\* C24: once a command has ended, with an error or without, no provider
\* subprocess is started any more; the process ends with code 1 and one
\* message on stderr after an error, and with code 0 and nothing on
\* stderr otherwise; until then it has not exited and printed no error.
C24_FailureTerminalReportedOnce ==
  /\ pc \in { "done", "exited" } => ~CanSpawn
  /\ pc = "exited" =>
       /\ process.exited
       /\ result = "ok" => process.exitCode = 0 /\ process.stderr = << >>
       /\ result # "ok" => process.exitCode = 1 /\ process.stderr = << result >>
  /\ pc # "exited" => process = Running

\* A load of two entries has failed at the first one: the second was
\* never tried and the process has exited with code 1.
C24_Witness ==
  /\ pc = "exited"
  /\ cmd.op = "load"
  /\ result = "cli-failure"
  /\ Len(plan) = 2
  /\ Len(calls) = 1
  /\ calls[1].exit = 1
  /\ process.exitCode = 1
  /\ Len(process.stderr) = 1

\* The set commands the provider has applied, in the order it applied
\* them.
AppliedWrites == SelectSeq(calls, LAMBDA c : c.op \in { "set", "add" } /\ c.exit = 0)

\* C26: of two processes that run add or update of one key side by side,
\* each decides from its own listing and writes without a lock or a
\* second look: an add by an adapter that lists has succeeded only if its
\* listing lacked the key and an update only if its listing had it, the
\* write of such an adapter is the overwriting set command, and the
\* remote holds the value of the write the provider applied last.
C26_UncoordinatedLastWriteWins ==
  /\ AppliedWrites # << >> =>
       store[SharedTarget][K_A] = AppliedWrites[Len(AppliedWrites)].value
  /\ AppliedWrites = << >> => store = store0
  /\ \A i \in DOMAIN invocations :
       LET inv == invocations[i]
       IN /\ (inv.result = "ok" /\ inv.method = "add" /\ adapter \notin { "vercel", "custom" })
               => inv.listed /\ ~inv.exists
          /\ (inv.result = "ok" /\ inv.method = "update") => inv.listed /\ inv.exists
  /\ adapter \notin { "vercel", "custom" } =>
       \A j \in DOMAIN calls : calls[j].op # "add"

\* With the Convex adapter two adds of the absent key A have both
\* succeeded; the remote holds the value of the second write.
C26_Witness ==
  /\ adapter = "convex"
  /\ Len(invocations) = 2
  /\ store0[SharedTarget][K_A] = Absent
  /\ \A i \in { 1, 2 } : invocations[i].method = "add" /\ invocations[i].result = "ok"
  /\ Len(AppliedWrites) = 2
  /\ AppliedWrites[1].value = V_2
  /\ store[SharedTarget][K_A] = V_1

\* C27: exec ends by returning a result; without a command (none, or an
\* empty name) it never spawns and returns a non-zero exit code; when the
\* error event comes before the close event it returns a non-zero exit
\* code; and it returns 0 only if the close event came first and carried
\* the exit code 0, a close without exit code giving 1.
C27_ExecNeverRaises ==
  /\ child.state \in { "called", "waiting", "returned" }
  /\ (child.state # "called" /\ (child.cmd = << >> \/ child.cmd[1] = << >>)) =>
       /\ child.state = "returned"
       /\ child.result.exitCode # 0
       /\ ~child.errored /\ ~child.closed /\ child.chunks = 0
  /\ child.state = "returned" =>
       /\ child.result.exitCode \in { 1 } \cup ChildCodes
       /\ child.result.exitCode = 0 => child.closed /\ child.code = 0
       /\ (child.closed /\ child.code = NullCode) => child.result.exitCode = 1
       /\ (child.errored /\ ~child.closed) => child.result.exitCode = 1

\* A piped child gave one chunk and ended without an exit code: exec
\* returned 1 with the chunk.
C27_Witness ==
  /\ child.state = "returned"
  /\ ~child.interactive
  /\ child.closed
  /\ ~child.errored
  /\ child.code = NullCode
  /\ child.result.exitCode = 1
  /\ child.result.chunks = 1

\* C28: the init of the Vercel and Netlify adapters returns only with
\* the link marker in place; it throws when the version check or the
\* link command exits non-zero, or when the marker is missing after the
\* link; and its link command is next only while the marker is missing.
C28_InitRequiresLinkMarker ==
  (adapter \in { "vercel", "netlify" } /\ pc \in { "init", "done", "exited" }
     /\ ~(pc # "init" /\ calls = << >>)) =>
    /\ (pc = "init" /\ calls # << >>) =>
         (Head(plan) = "link" /\ LinkMarker(adapter) \notin markers)
    /\ (pc # "init" /\ result = "ok") => LinkMarker(adapter) \in markers
    /\ (pc # "init" /\ (\E i \in DOMAIN calls : calls[i].exit # 0)) => result # "ok"
    /\ (pc # "init" /\ LinkMarker(adapter) \notin markers) => result # "ok"
    /\ (calls # << >> /\ calls[1].exit # 0) => Len(calls) = 1

\* `vercel link` ran after the version check, exited 0 and left
\* .vercel/project.json: init returned.
C28_Witness ==
  /\ adapter = "vercel"
  /\ pc = "done"
  /\ result = "ok"
  /\ Len(calls) = 2
  /\ calls[2].op = "link"
  /\ calls[2].exit = 0
  /\ ".vercel/project.json" \in markers

\* The provider the markers of a project directory stand for, in the
\* order Vercel, Netlify, Railway, Cloudflare, Fly, Convex.
FirstMarked(ms) ==
  IF ".vercel" \in ms THEN "vercel"
  ELSE IF ".netlify" \in ms THEN "netlify"
  ELSE IF ".railway" \in ms THEN "railway"
  ELSE IF ".wrangler" \in ms \/ "wrangler.toml" \in ms THEN "cloudflare"
  ELSE IF "fly.toml" \in ms THEN "fly"
  ELSE IF "convex" \in ms \/ "convex.json" \in ms THEN "convex"
  ELSE "vercel"

\* C29: when no better-env.ts is found, init --yes writes better-env.ts
\* for the first provider marked in the project directory, Vercel when
\* none is, and asks nothing; a better-env.ts that is found is loaded
\* when its export is valid, and is never written.
C29_InitYesCreatesInferredConfig ==
  [][/\ (pc = "config" /\ ~configFile.exists /\ flags.yes) =>
          /\ configFile' = [exists |-> TRUE, adapter |-> FirstMarked(markers),
                            writes |-> 1]
          /\ adapter' = FirstMarked(markers)
          /\ terminal' = terminal
          /\ pc' = "init"
     /\ configFile.exists => configFile' = configFile
     /\ (pc = "config" /\ configFile.exists /\ configFile.adapter # "invalid") =>
          (adapter' = configFile.adapter /\ pc' = "init")]_vars

\* init --yes in a directory with .netlify and .railway and no
\* better-env.ts wrote a netlify configuration without asking.
C29_Witness ==
  /\ flags.yes
  /\ configFile = [exists |-> TRUE, adapter |-> "netlify", writes |-> 1]
  /\ { ".netlify", ".railway" } \subseteq markers
  /\ ".vercel" \notin markers
  /\ terminal = << >>
  /\ adapter = "netlify"

\* C30: what a line-based listing parser reports is exactly the listed
\* variables whose name matches the name pattern: once load --mode
\* replace has listed the remote with exit code 0, the keys it got are
\* the keys of the remote that are variable names, none dropped.
C30_NamePatternSoleGate ==
  (/\ InLoadReplace
   /\ adapter \in { "vercel", "netlify", "convex" }
   /\ calls # << >>
   /\ calls[Len(calls)].op = "list"
   /\ calls[Len(calls)].exit = 0)
  => Range(existingKeys) =
       { k \in Keys : store[CurTarget][k] # Absent /\ isEnvVarName(k) }

\* What a listing of the records `items` has to yield: the names for the
\* Fly and Cloudflare parsers, the names with their values for Railway's.
ExpectedListing(by, items) ==
  IF by = "railway"
  THEN Some([i \in DOMAIN items |-> [key |-> items[i].name, value |-> items[i].value]])
  ELSE Some([i \in DOMAIN items |-> items[i].name])

\* C31: a parser given banner lines, a cut-off JSON fragment and one valid
\* array of name/value records returns the names (Railway: and values)
\* of the array.
C31_BannerAndFragmentIgnored ==
  (pc = "parsed" /\ fnArgs.banner # << >> /\ fnArgs.fragment # << >>)
  => returned.val = ExpectedListing(returned.by, fnArgs.items)

\* C32: .env.local is never written: whatever commands have run, the
\* file does not exist.
C32_NeverWritesEnvLocal == envFiles[F_local] = NoFile

\* A first command has written a key through one logical environment and
\* a second command on that key, through any of the three, has ended.
WrittenThenUsed ==
  /\ pc = "done"
  /\ Len(invocations) = 1
  /\ invocations[1].cmd.op \in { "add", "upsert", "update" }
  /\ invocations[1].result = "ok"
  /\ cmd.key = invocations[1].cmd.key

\* C33: with the Fly adapter's default environments, a key written
\* through development, preview or production exists for a command given
\* any of the three: add is refused and leaves the value, update is let
\* through and sets the value, delete removes the key, unless the
\* provider command itself fails.
C33_FlyOneSecretSet ==
  (adapter = "fly" /\ WrittenThenUsed) =>
    /\ cmd.op = "add" =>
         (result \in { "already-exists", "cli-failure" } /\ store = store0)
    /\ cmd.op = "update" =>
         /\ result \in { "ok", "cli-failure" }
         /\ result = "ok" => \A t \in Targets : store[t][cmd.key] \in { cmd.value, Absent }
         /\ result = "ok" => \E t \in Targets : store[t][cmd.key] = cmd.value
    /\ (cmd.op = "delete" /\ result = "ok") =>
         \A t \in Targets : store[t][cmd.key] = Absent

\* A key upserted through preview was refused by add through development.
C33_Witness ==
  /\ adapter = "fly"
  /\ WrittenThenUsed
  /\ invocations[1].cmd.op = "upsert"
  /\ invocations[1].cmd.environmentName = "preview"
  /\ cmd.op = "add"
  /\ cmd.environmentName = "development"
  /\ result = "already-exists"

\* The flag values that stand for true: true, 1 and yes in any case.
TruthyFlagValues ==
  { << "t", "r", "u", "e" >>, << "T", "R", "U", "E" >>, << "Y", "e", "s" >>, << "1" >> }

\* C34: configSchema given a flag whose value is not truthy returns
\* isEnabled false without running any schema and without throwing,
\* whatever the fields; given a truthy flag it runs the schema of every
\* field, and returns isEnabled true unless a field is invalid.
C34_FlagOffSkipsValidation ==
  (pc = "returned" /\ fnArgs.flag.given) =>
    IF fnArgs.flag.value \notin TruthyFlagValues
    THEN returned.val = SchemaResult("none", "false", { })
    ELSE \/ /\ returned.val.threw = "none"
            /\ returned.val.isEnabled = "true"
            /\ returned.val.validated = DOMAIN fnArgs.fields
         \/ /\ returned.val.threw # "none"
            /\ \E i \in returned.val.validated : fnArgs.fields[i].value = UndefinedString

\* A token of the command line that parseFlags' conventions read as the
\* value of the option before it.
RECURSIVE IsOptionValue(_, _)
IsOptionValue(args, i) ==
  /\ i > 1
  /\ args[i] # << >>
  /\ args[i - 1] \in { T_environment, T_e }
  /\ ~IsOptionValue(args, i - 1)

\* The caller passed --sensitive as an option.
PassedSensitive(args) ==
  \E i \in DOMAIN args : args[i] = T_sensitive /\ ~IsOptionValue(args, i)

\* The set commands among the provider commands a run issued.
IssuedSetCommands ==
  { returned.val[i] : i \in { j \in DOMAIN returned.val :
                                 returned.val[j].verb \in { "env add", "env:set" } } }

ExistingBefore == IF fnArgs.file = Absent THEN << >> ELSE fnArgs.file

\* The normalized paths the first call finds uncovered.
UncoveredBefore ==
  LET lines == splitLines(ExistingBefore)
  IN Range(additionsOf({ trim(lines[i]) : i \in DOMAIN lines } \ { << >> },
                       fnArgs.paths))

\* The lines the first call appended.
AppendedLines ==
  split(SubSeq(returned[1].file, Len(ExistingBefore) + 1, Len(returned[1].file)))

\* How often `line` stands among the appended lines.
TimesAppended(line) ==
  Cardinality({ i \in DOMAIN AppendedLines : AppendedLines[i] = line })

\* The first call kept the previous content as a prefix and appended
\* the header and every uncovered path once, and nothing else; it wrote
\* the file exactly when it returned changed = true.
AppendedOnce ==
  returned # << >> =>
    /\ returned[1].changed <=> returned[1].writes = 1
    /\ returned[1].changed <=> UncoveredBefore # { }
    /\ IF returned[1].changed
       THEN /\ startsWith(returned[1].file, ExistingBefore)
            /\ TimesAppended(GitignoreHeader) = 1
            /\ \A rel \in UncoveredBefore : TimesAppended(rel) = 1
            /\ Range(AppendedLines) \subseteq
                 UncoveredBefore \cup { GitignoreHeader, << >> }
       ELSE returned[1].file = fnArgs.file

\* The second call with the same paths wrote nothing.
SecondCallWritesNothing ==
  Len(returned) = 2 =>
    /\ ~returned[2].changed
    /\ returned[2].writes = 0
    /\ returned[2].file = returned[1].file

\* C36: ensureGitIgnored only appends: the previous content of
\* .gitignore is a prefix of the new content, every uncovered path is
\* appended exactly once under the header "# better-env (generated)",
\* `changed` is true if and only if the file was written, and a second
\* call with the same paths writes nothing and returns changed = false.
C36_EnsureAppendsOnce == AppendedOnce /\ SecondCallWritesNothing

\* The directories from the start directory up to the root that hold a
\* config file.
AncestorsWithConfig ==
  { n \in 0..Len(fnArgs.startDir) :
      fnArgs.files[SubSeq(fnArgs.startDir, 1, n)] # { } }

\* The config file of the nearest of them, better-env.ts before
\* better-env.js, or null when there is none.
NearestConfig ==
  IF AncestorsWithConfig = { } THEN JsNull
  ELSE LET n == CHOOSE m \in AncestorsWithConfig : \A k \in AncestorsWithConfig : k <= m
           dir == SubSeq(fnArgs.startDir, 1, n)
       IN Some(pathJoin(dir, IF "better-env.ts" \in fnArgs.files[dir]
                             THEN "better-env.ts" ELSE "better-env.js"))

\* C37: findUp terminates for every start directory, and returns the
\* config file of the nearest directory from the start directory up to
\* the root that holds better-env.ts or better-env.js, better-env.ts
\* first within a directory, or null when no such directory holds one.
C37_FindUpTerminatesNearest ==
  /\ <>(pc = "returned")
  /\ [](pc = "returned" => returned.value = NearestConfig)

\* findUp has climbed two directories to one that holds both files and
\* returned its better-env.ts.
C37_Witness ==
  /\ pc = "returned"
  /\ Len(fnArgs.startDir) = 3
  /\ returned.current = << "a" >>
  /\ fnArgs.files[<< "a" >>] = Range(ConfigFileNames)
  /\ fnArgs.files[<< >>] # { }
  /\ returned.value = Some(pathJoin(<< "a" >>, "better-env.ts"))

\* A command has started on a Convex environment that is mapped to a
\* remote other than development and production.
ConvexUnsupportedRemote ==
  /\ adapter = "convex"
  /\ RemoteMapped
  /\ CurRemote \notin { "development", "production" }

\* C38: a Convex operation (pull, add, upsert, update, delete,
\* listEnvVars) on a remote other than development and production fails
\* with "Unsupported Convex environment" before any subprocess is
\* started, and leaves the remote store and the local files as they
\* were. (A load of a file without assignments calls no operation.)
C38_ConvexUnsupportedRemoteFails ==
  ConvexUnsupportedRemote =>
    /\ pc = "done"
    /\ calls = << >>
    /\ store = store0
    /\ envFiles = [f \in DOMAIN envFiles |-> NoFile]
    /\ gitignore = << >>
    /\ IF adapterCalls = << >>
       THEN cmd.op = "load" /\ cmd.mode # "replace" /\ entries = << >> /\ result = "ok"
       ELSE Len(adapterCalls) = 1 /\ result = "unsupported-environment"

\* A load --replace on an environment mapped to `staging` has failed a
\* second time at listEnvVars, with a variable in the development store.
C38_Witness ==
  /\ ConvexUnsupportedRemote
  /\ CurRemote = "staging"
  /\ cmd.op = "load"
  /\ cmd.mode = "replace"
  /\ adapterCalls[1].method = "listEnvVars"
  /\ result = "unsupported-environment"
  /\ ncmds = 2
  /\ store["development"][K_A] = V_1

\* The attempt of a JSON listing command is usable: it exited 0 and its
\* output parses.
Usable(i) ==
  /\ fnArgs.attempts[i].exitCode = 0
  /\ ~parseListing(adapter, fnArgs.attempts[i].stdout).isNull

\* What the listing gives by the outcomes of its commands alone: the
\* first command's result if usable, else the second's, else (Railway)
\* the plain listing's if it exited 0, else the failure.
ListingByCommandOrder ==
  IF Usable(1)
  THEN [threw |-> FALSE, val |-> parseListing(adapter, fnArgs.attempts[1].stdout).val]
  ELSE IF Usable(2)
  THEN [threw |-> FALSE, val |-> parseListing(adapter, fnArgs.attempts[2].stdout).val]
  ELSE IF adapter = "railway" /\ fnArgs.plain.exitCode = 0
  THEN [threw |-> FALSE, val |-> parseRailwayPlainVariables(fnArgs.plain.stdout)]
  ELSE [threw |-> TRUE, val |-> << >>]

\* C39: the result of a Railway or Cloudflare listing does not depend on
\* which of its two JSON listing subprocesses ends first: the results
\* are examined only after both have ended, first command first, and the
\* listing fails only if no attempt is usable.
C39_ListingOrderIndependent ==
  /\ pc \in { "plain", "returned" } => Len(returned.closed) = 2
  /\ pc = "returned" =>
       /\ returned.threw = ListingByCommandOrder.threw
       /\ returned.val = ListingByCommandOrder.val

\* The second command ended first; both are usable and differ, and the
\* listing gave the first command's names.
C39_Witness ==
  /\ pc = "returned"
  /\ adapter = "cloudflare"
  /\ returned.closed = << 2, 1 >>
  /\ Usable(1)
  /\ Usable(2)
  /\ fnArgs.attempts[1].stdout # fnArgs.attempts[2].stdout
  /\ returned.val = << K_A >>

\* Every key a load has handed to adapter.add, update or upsert is a
\* variable name.
LoadKeysAreNames ==
  cmd.op = "load" =>
    \A i \in DOMAIN adapterCalls :
      adapterCalls[i].method \in { "add", "update", "upsert" }
        => isEnvVarName(adapterCalls[i].key)

\* Every key a load that has ended has written is among the keys of any
\* listing of the adapter that succeeds.
LoadedKeysListed ==
  (cmd.op = "load" /\ pc = "done" /\ RemoteMapped /\ adapter \in ShippedAdapters) =>
    \A i \in DOMAIN calls :
      (calls[i].op \in { "set", "add" } /\ calls[i].exit = 0) =>
        \A o \in ListOutcomes(adapter, CurRemote, store[CurTarget]) :
          o.ok => calls[i].key \in Range(o.keys)

\* C40: every key that load passes to an adapter add, update or upsert
\* matches [A-Za-z_][A-Za-z0-9_]*, so that every key load has written is
\* visible to the adapter's listing.
C40_LoadKeysVisible == LoadKeysAreNames /\ LoadedKeysListed

====
